---------------------------- MODULE Spec2Model ----------------------------
(***************************************************************************)
(* A model of the counter bot of src/index.js: the configuration store     *)
(* (counterConfigs), its durable snapshot (config.json), the provisioning  *)
(* handlers (handleCounterSetup, handleCounterReset), the statistic         *)
(* evaluator (getCountForType) and the two reconcile passes                 *)
(* (updateAllCounters, updateGuildCounters).                                *)
(*                                                                         *)
(* Every handler is an async function: it runs without interruption up to  *)
(* its next await of an external call, so each action below is one such    *)
(* run, from the completion of one awaited call to the issue of the next.  *)
(* The awaits of logMessage change no modelled state; they are kept as a   *)
(* step of their own only where the code reads shared state after them.    *)
(***************************************************************************)
EXTENDS Integers, Sequences, FiniteSets, TLC

\* ------------------------------------------------------------------ bounds
MaxSetups == 2      \* handleCounterSetup invocations in one behaviour
MaxResets == 2      \* handleCounterReset invocations in one behaviour
MaxSweeps == 1      \* updateAllCounters invocations in one behaviour
MaxEvents == 2      \* member / presence events (each schedules a reconcile)
MaxUsers == 2       \* users of a membership snapshot drawn for the evaluator
MaxDocEntries == 2  \* per-community entries of a snapshot document that is loaded
MaxConfigs == 2     \* CounterConfigs of one community in a drawn store or document
MaxLists == 1       \* listCounterTypes invocations in one behaviour
MaxSignals == 2     \* signals and top-level faults the process is given

\* ----------------------------------------------------------- input domains
GuildIds == {"g1", "g2"}
CategoryNames == {"Stats"}
UserIds == 1..MaxUsers

\* The keys of COUNTER_TYPES, in the order of the object literal.
CounterKinds ==
    {"members", "bots", "roles", "online-members", "online-bots",
     "offline-members", "offline-bots"}

\* Kinds the set-up command is given in the behaviours of the handlers.
SetupKinds == {"members", "online-bots"}

\* m.presence?.status: "absent" stands for a member without presence record.
PresenceValues == {"online", "idle", "dnd", "offline", "absent"}

\* src/index.js:95-103
COUNTER_TYPES ==
    [k \in CounterKinds |->
        CASE k = "members" -> "Total Members"
          [] k = "bots" -> "Total Bots"
          [] k = "roles" -> "Members with Roles"
          [] k = "online-members" -> "Online Members"
          [] k = "online-bots" -> "Online Bots"
          [] k = "offline-members" -> "Offline Members"
          [] k = "offline-bots" -> "Offline Bots"]

\* guild.name of a guild of the client's cache.
GuildName(g) == "Server " \o g

\* ------------------------------------------------------ statistic evaluator
\* A slip in the status list: 'idle' and 'dnd' left out.
IsOnlineOnlyOnline(m) == m.presence = "online"

\* ['online', 'idle', 'dnd'].includes(m.presence?.status)
IsOnline(m) == m.presence \in {"online", "idle", "dnd"}

\* (!m.presence || m.presence.status === 'offline')
IsOffline(m) == m.presence = "absent" \/ m.presence = "offline"

\* The filter of each case of the switch of getCountForType.
CountFilter(type, m) ==
    CASE type = "members" -> ~m.bot
      [] type = "bots" -> m.bot
      [] type = "roles" -> ~m.bot /\ m.roles > 1
      [] type = "online-members" -> ~m.bot /\ IsOnline(m)
      [] type = "online-bots" -> m.bot /\ IsOnline(m)
      [] type = "offline-members" -> ~m.bot /\ IsOffline(m)
      [] type = "offline-bots" -> m.bot /\ IsOffline(m)
      [] OTHER -> FALSE

\* getCountForType on a fetched membership (a set of member records with
\* distinct ids): members.filter(...).size, and 0 for an unknown type.
getCountForType(snapshot, type) ==
    Cardinality({m \in snapshot : CountFilter(type, m)})

\* `${COUNTER_TYPES[type]}: ${count}`
ChannelName(type, count) == COUNTER_TYPES[type] \o ": " \o ToString(count)


\* ------------------------------------------------------ configuration store
(***************************************************************************)
(* counterConfigs is a Map from guild id to an array of configs.  It is    *)
(* modelled as the Map's entry list (ECMAScript [[MapData]]): set of a new *)
(* key appends an entry, delete and clear mark entries deleted, an         *)
(* iterator is a position in the list.  Each entry holds one array for its *)
(* whole life, so a handler's reference to a configs array is the position *)
(* of its entry; the array of a deleted entry can no longer be reached     *)
(* through the Map and stays as the handlers that still hold it left it.   *)
(***************************************************************************)
MapEntry(g, cfgs) == [guildId |-> g, configs |-> cfgs, deleted |-> FALSE]

\* counterConfigs.has(guildId)
MapHas(map, g) == \E i \in DOMAIN map : ~map[i].deleted /\ map[i].guildId = g

\* The position of the live entry of g (0: none).
MapPos(map, g) ==
    IF MapHas(map, g)
    THEN CHOOSE i \in DOMAIN map : ~map[i].deleted /\ map[i].guildId = g
    ELSE 0

\* counterConfigs.set(guildId, value)
MapSet(map, g, cfgs) ==
    IF MapHas(map, g)
    THEN [map EXCEPT ![MapPos(map, g)].configs = cfgs]
    ELSE Append(map, MapEntry(g, cfgs))

\* counterConfigs.delete(guildId)
MapDelete(map, g) ==
    [i \in DOMAIN map |->
        IF map[i].guildId = g THEN [map[i] EXCEPT !.deleted = TRUE] ELSE map[i]]

\* counterConfigs.clear()
MapClear(map) == [i \in DOMAIN map |-> [map[i] EXCEPT !.deleted = TRUE]]

\* counterConfigs.get(guildId).push(config)
MapPush(map, g, cfg) ==
    [map EXCEPT ![MapPos(map, g)].configs = Append(@, cfg)]

IsLive(e) == ~e.deleted

\* counterConfigs.entries(): the live entries, in insertion order.
MapEntries(map) == SelectSeq(map, IsLive)

\* What the store holds: the guild ids and their configs, in order.
StoreView(map) ==
    [i \in DOMAIN MapEntries(map) |->
        [guildId |-> MapEntries(map)[i].guildId,
         configs |-> MapEntries(map)[i].configs]]

\* ------------------------------------------------------------ snapshot codec
(***************************************************************************)
(* The content of config.json as a JSON value.  A file is                  *)
(*   [tag, hasCounterConfigs, entries]: tag "nofile" (readFile rejects),   *)
(*   "garbage" (JSON.parse throws), "null" (the text null) or "object";    *)
(*   entries is the object under the key counterConfigs, as the sequence   *)
(*   of its keys and values (Object.entries).                              *)
(* A value of entries is [tag, serverName, cfgTag, items]: tag "array"     *)
(* (the legacy shape, items the configs), "object" (cfgTag says what its   *)
(* key configs holds: "array" with items, "missing", or "falsy" for null,  *)
(* 0, "" or false), "null" or "prim" (a number, string or boolean).        *)
(***************************************************************************)
NoFile == [tag |-> "nofile", hasCounterConfigs |-> FALSE, entries |-> <<>>]

JsonArray(items) ==
    [tag |-> "array", serverName |-> "", cfgTag |-> "array", items |-> items]

JsonGuild(name, items) ==
    [tag |-> "object", serverName |-> name, cfgTag |-> "array", items |-> items]

JsonOther(tag, cfgTag) ==
    [tag |-> tag, serverName |-> "", cfgTag |-> cfgTag, items |-> <<>>]

\* guild ? guild.name : 'Unknown Server'
ServerName(cache, g) == IF g \in cache THEN GuildName(g) ELSE "Unknown Server"

\* The synchronous part of saveConfigs: configData, built from the entries
\* of the Map and the client's guild cache, as handed to fs.writeFile.
Serialize(map, cache) ==
    [tag |-> "object", hasCounterConfigs |-> TRUE,
     entries |->
        [i \in DOMAIN MapEntries(map) |->
            [key |-> MapEntries(map)[i].guildId,
             value |-> JsonGuild(ServerName(cache, MapEntries(map)[i].guildId),
                                 MapEntries(map)[i].configs)]]]

\* Array.isArray(guildData)
IsLegacyShape(v) == v.tag = "array"

\* A slip in the shape test: an empty configs array taken as falsy.
HasConfigsNonEmpty(v) == v.tag = "object" /\ v.cfgTag = "array" /\ v.items # <<>>

\* guildData.configs is truthy (an array, also an empty one, is).
HasConfigs(v) == v.tag = "object" /\ v.cfgTag = "array"

\* The loop of loadConfigs from entry i on.  Reading guildData.configs of a
\* null entry throws a TypeError: the catch of loadConfigs ends the load
\* there, with the entries set so far.
RECURSIVE LoadEntries(_, _, _)
LoadEntries(entries, i, map) ==
    IF i > Len(entries) THEN [map |-> map, warned |-> FALSE]
    ELSE LET v == entries[i].value
         IN  IF IsLegacyShape(v) \/ HasConfigs(v)
             THEN LoadEntries(entries, i + 1, MapSet(map, entries[i].key, v.items))
             ELSE IF v.tag = "null"
             THEN [map |-> map, warned |-> TRUE]
             ELSE LoadEntries(entries, i + 1, map)

\* loadConfigs once readFile has settled: the Map it leaves, and whether it
\* logged the warning of its catch.
Deserialize(map, f) ==
    IF f.tag \in {"nofile", "garbage", "null"} THEN [map |-> map, warned |-> TRUE]
    ELSE IF ~f.hasCounterConfigs THEN [map |-> map, warned |-> FALSE]
    ELSE LoadEntries(f.entries, 1, MapClear(map))


\* -------------------------------------------------------------------- state
VARIABLES
    counterConfigs, \* the Map of src/index.js:17, as its entry list
    file,           \* the content of config.json
    guildCache,     \* the guild ids client.guilds.cache resolves
    chans,          \* every channel ever created, by id: guild, type, name,
                    \* parent, and whether the guild's channel cache holds it
    members,        \* per guild, the membership guild.members.fetch() returns
    setup,          \* the invocations of handleCounterSetup
    reset,          \* the invocations of handleCounterReset
    sweep,          \* the invocations of updateAllCounters
    debounce,       \* the timers of the member and presence events, and the
                    \* invocations of updateGuildCounters they start
    loader,         \* the ready handler's call of loadConfigs
    saver,          \* the invocations of saveConfigs by its interval timer
    counts,         \* per counter type, the last result of getCountForType
                    \* handed to a caller that asked for that type alone
    list,           \* the invocations of listCounterTypes
    proc            \* the process: its exit code (-1 while it runs) and the
                    \* invocations of the handlers of process.on

vars ==
    <<counterConfigs, file, guildCache, chans, members, setup, reset, sweep,
      debounce, loader, saver, counts, list, proc>>

SetupIds == 1..MaxSetups
ResetIds == 1..MaxResets
SweepIds == 1..MaxSweeps
DebounceIds == 1..MaxEvents

ListIds == 1..MaxLists
SignalIds == 1..MaxSignals

\* A handler invocation that has not started.  Of a command handler, embed
\* is the embed of the response call it awaits and reply the response the
\* requester was given; deferred is interaction.deferred, responses counts
\* the reply and editReply calls that resolved, and rejected says whether
\* the platform rejected one of its response calls (deferReply included).
\* Of a reset, timerPending says whether a timer of the guild was pending
\* when the guild's entry was deleted.
IdleSetup ==
    [pc |-> "idle", guild |-> "", type |-> "", categoryName |-> "",
     category |-> 0, count |-> 0, channelName |-> "", channel |-> 0,
     doc |-> NoFile, embed |-> "none", reply |-> "none",
     deferred |-> FALSE, responses |-> 0, rejected |-> FALSE]

IdleReset ==
    [pc |-> "idle", guild |-> "", pos |-> 0, i |-> 0, channel |-> 0,
     category |-> 0, deletedChannels |-> 0, failedDeletions |-> 0,
     channelFailures |-> 0, deleteCalls |-> 0, timerPending |-> FALSE,
     doc |-> NoFile, embed |-> "none", reply |-> "none",
     deferred |-> FALSE, responses |-> 0, rejected |-> FALSE]

\* The delay of the timers the event handlers set (1000 ms, line 529), in
\* units of the clock of Tick.
DebounceDelay == 1

\* A reconcile pass that has not started; age is the time since its timer
\* was set, while the timer is pending.
IdlePass ==
    [pc |-> "idle", guild |-> "", pos |-> 0, i |-> 0, channel |-> 0,
     newName |-> "", renames |-> 0, failures |-> 0, failures0 |-> 0,
     syncedAtStart |-> FALSE, undisturbed |-> FALSE, age |-> 0]

IdleLoader == [pc |-> "idle", warned |-> FALSE]

IdleSaver == [pc |-> "idle", doc |-> NoFile]

NoCounts == [k \in CounterKinds |-> -1]

IdleList == [pc |-> "idle", reply |-> "none", responses |-> 0, rejected |-> FALSE]

\* An invocation of a handler of process.on: kind is the event, doc the
\* document its saveConfigs handed to fs.writeFile, saved how that ended.
IdleHandler == [pc |-> "idle", kind |-> "", doc |-> NoFile, saved |-> "none"]

IdleProc == [exitCode |-> -1, handlers |-> [h \in SignalIds |-> IdleHandler]]

\* The process has not exited: a condition of every step of every task.
Running == proc.exitCode = -1

\* The members of the behaviours of the handlers: user 1 is a person holding
\* a role, user 2 the bot itself.
Member(id, presence) ==
    [id |-> id, bot |-> (id % 2 = 0), roles |-> (IF id % 2 = 0 THEN 1 ELSE 2),
     presence |-> presence]

\* The process after construction (src/index.js:17: an empty Map), in two
\* guilds with the bot as only member and no category, and no config.json.
Init ==
    /\ counterConfigs = <<>>
    /\ file = NoFile
    /\ guildCache = GuildIds
    /\ chans = <<>>
    /\ members = [g \in GuildIds |-> {Member(2, "online")}]
    /\ setup = [s \in SetupIds |-> IdleSetup]
    /\ reset = [r \in ResetIds |-> IdleReset]
    /\ sweep = [w \in SweepIds |-> IdlePass]
    /\ debounce = [d \in DebounceIds |-> IdlePass]
    /\ loader = IdleLoader
    /\ saver = IdleSaver
    /\ counts = NoCounts
    /\ list = [l \in ListIds |-> IdleList]
    /\ proc = IdleProc

\* ------------------------------------------------- saveConfigs, loadConfigs
\* The interval timer of src/index.js:171 calls saveConfigs: configData is
\* built and fs.writeFile is issued.
SaveTick ==
    /\ Running
    /\ saver.pc = "idle"
    /\ saver' = [pc |-> "writeFile", doc |-> Serialize(counterConfigs, guildCache)]
    /\ UNCHANGED <<counterConfigs, file, guildCache, chans, members, setup,
                   reset, sweep, debounce, loader, counts, list, proc>>

\* fs.writeFile resolves: the file holds the document it was handed.
SaveWritten ==
    /\ Running
    /\ saver.pc = "writeFile"
    /\ file' = saver.doc
    /\ saver' = [saver EXCEPT !.pc = "done"]
    /\ UNCHANGED <<counterConfigs, guildCache, chans, members, setup, reset,
                   sweep, debounce, loader, counts, list, proc>>

\* fs.writeFile rejects: the catch of saveConfigs logs it.
SaveFailed ==
    /\ Running
    /\ saver.pc = "writeFile"
    /\ saver' = [saver EXCEPT !.pc = "done"]
    /\ UNCHANGED <<counterConfigs, file, guildCache, chans, members, setup,
                   reset, sweep, debounce, loader, counts, list, proc>>

\* The ready handler calls loadConfigs, which issues fs.readFile.
LoadStart ==
    /\ Running
    /\ loader.pc = "idle"
    /\ loader' = [loader EXCEPT !.pc = "readFile"]
    /\ UNCHANGED <<counterConfigs, file, guildCache, chans, members, setup,
                   reset, sweep, debounce, saver, counts, list, proc>>

\* fs.readFile settles and loadConfigs runs to its end.
LoadRead ==
    /\ Running
    /\ loader.pc = "readFile"
    /\ counterConfigs' = Deserialize(counterConfigs, file).map
    /\ loader' = [pc |-> "done", warned |-> Deserialize(counterConfigs, file).warned]
    /\ UNCHANGED <<file, guildCache, chans, members, setup, reset, sweep,
                   debounce, saver, counts, list, proc>>

\* The bot is removed from a guild: client.guilds.cache drops it.
GuildDelete(g) ==
    /\ Running
    /\ g \in guildCache
    /\ guildCache' = guildCache \ {g}
    /\ UNCHANGED <<counterConfigs, file, chans, members, setup, reset, sweep,
                   debounce, loader, saver, counts, list, proc>>

\* --------------------------------------------- getCountForType, on its own
\* One call of getCountForType(guild, type) whose members.fetch() resolved.
Evaluate(g, type) ==
    /\ Running
    /\ counts[type] = -1
    /\ counts' = [counts EXCEPT ![type] = getCountForType(members[g], type)]
    /\ UNCHANGED <<counterConfigs, file, guildCache, chans, members, setup,
                   reset, sweep, debounce, loader, saver, list, proc>>

\* ------------------------------------------------------ drawn input domains
\* Sequences over S of length at most n.
RECURSIVE SeqsUpTo(_, _)
SeqsUpTo(S, n) ==
    IF n = 0 THEN {<<>>}
    ELSE SeqsUpTo(S, n - 1) \cup
         {Append(q, x) : q \in SeqsUpTo(S, n - 1), x \in S}

\* Sequences over S without repetition of a key, of length at most n.
DistinctKeys(q) == \A i, j \in DOMAIN q : i # j => q[i].key # q[j].key

ConfigPool ==
    {[channelId |-> 2, type |-> "members", categoryId |-> 1],
     [channelId |-> 3, type |-> "online-bots", categoryId |-> 1]}

ConfigSeqs == SeqsUpTo(ConfigPool, MaxConfigs)

\* The memberships the evaluator is given: every user absent or present with
\* any flag, role count and presence.
MemberRecords(id) ==
    [id : {id}, bot : BOOLEAN, roles : {1, 2}, presence : PresenceValues]

\* The memberships of users 1..n with distinct ids.
RECURSIVE SnapshotsOf(_)
SnapshotsOf(n) ==
    IF n = 0 THEN {{}}
    ELSE {S \cup T : S \in SnapshotsOf(n - 1),
                     T \in {{}} \cup {{m} : m \in MemberRecords(n)}}

Snapshots == SnapshotsOf(MaxUsers)

\* The stores drawn for a save: any guilds, each with any configs (also none,
\* as a load of a document with an empty array leaves it).
StoreEntries ==
    {[key |-> g, value |-> q] : g \in GuildIds, q \in ConfigSeqs}

Stores ==
    {[i \in DOMAIN q |-> MapEntry(q[i].key, q[i].value)] :
        q \in {x \in SeqsUpTo(StoreEntries, Cardinality(GuildIds)) : DistinctKeys(x)}}

\* The values a document holds for a guild: the two shapes loadConfigs is
\* written for, and values of neither shape.
EntryValues ==
    {JsonArray(q) : q \in ConfigSeqs}
    \cup {JsonGuild(GuildName("g1"), q) : q \in ConfigSeqs}
    \cup {JsonOther("null", "missing"), JsonOther("prim", "missing"),
          JsonOther("object", "missing"), JsonOther("object", "falsy")}

DocEntries ==
    {q \in SeqsUpTo([key : GuildIds, value : EntryValues], MaxDocEntries) :
        DistinctKeys(q)}

Files ==
    {NoFile,
     [tag |-> "garbage", hasCounterConfigs |-> FALSE, entries |-> <<>>],
     [tag |-> "null", hasCounterConfigs |-> FALSE, entries |-> <<>>],
     [tag |-> "object", hasCounterConfigs |-> FALSE, entries |-> <<>>]}
    \cup {[tag |-> "object", hasCounterConfigs |-> TRUE, entries |-> q] :
            q \in DocEntries}

\* ------------------------------------------------- the codec specifications
\* saveConfigs then loadConfigs, from any store and any guild cache.
InitRoundTrip ==
    /\ counterConfigs \in Stores
    /\ file = NoFile
    /\ guildCache \in SUBSET GuildIds
    /\ chans = <<>>
    /\ members = [g \in GuildIds |-> {}]
    /\ setup = [s \in SetupIds |-> IdleSetup]
    /\ reset = [r \in ResetIds |-> IdleReset]
    /\ sweep = [w \in SweepIds |-> IdlePass]
    /\ debounce = [d \in DebounceIds |-> IdlePass]
    /\ loader = IdleLoader
    /\ saver = IdleSaver
    /\ counts = NoCounts
    /\ list = [l \in ListIds |-> IdleList]
    /\ proc = IdleProc

NextRoundTrip ==
    \/ SaveTick
    \/ SaveWritten
    \/ SaveFailed
    \/ LoadStart
    \/ LoadRead
    \/ \E g \in GuildIds : GuildDelete(g)

SpecRoundTrip == InitRoundTrip /\ [][NextRoundTrip]_vars

\* loadConfigs at start, the Map still empty, of any content of config.json.
InitLoad ==
    /\ counterConfigs = <<>>
    /\ file \in Files
    /\ guildCache = GuildIds
    /\ chans = <<>>
    /\ members = [g \in GuildIds |-> {}]
    /\ setup = [s \in SetupIds |-> IdleSetup]
    /\ reset = [r \in ResetIds |-> IdleReset]
    /\ sweep = [w \in SweepIds |-> IdlePass]
    /\ debounce = [d \in DebounceIds |-> IdlePass]
    /\ loader = IdleLoader
    /\ saver = IdleSaver
    /\ counts = NoCounts
    /\ list = [l \in ListIds |-> IdleList]
    /\ proc = IdleProc

NextLoad == LoadStart \/ LoadRead

SpecLoad == InitLoad /\ [][NextLoad]_vars

\* getCountForType of every type, on any membership of guild g1.
InitEval ==
    /\ counterConfigs = <<>>
    /\ file = NoFile
    /\ guildCache = GuildIds
    /\ chans = <<>>
    /\ members \in [GuildIds -> Snapshots]
    /\ members["g2"] = {}
    /\ setup = [s \in SetupIds |-> IdleSetup]
    /\ reset = [r \in ResetIds |-> IdleReset]
    /\ sweep = [w \in SweepIds |-> IdlePass]
    /\ debounce = [d \in DebounceIds |-> IdlePass]
    /\ loader = IdleLoader
    /\ saver = IdleSaver
    /\ counts = NoCounts
    /\ list = [l \in ListIds |-> IdleList]
    /\ proc = IdleProc

NextEval == \E type \in CounterKinds : Evaluate("g1", type)

SpecEval == InitEval /\ [][NextEval]_vars


\* ------------------------------------------------------ the guild's channels
\* interaction.guild.channels.cache.get(id) finds a channel.
ChannelCached(ch, g, id) ==
    id \in DOMAIN ch /\ ch[id].cached /\ ch[id].guild = g

\* channels.cache.find(c => c.type === GuildCategory && c.name === name):
\* the first such category of the cache (0: none).
FindCategory(ch, g, name) ==
    LET found == {id \in DOMAIN ch :
                    /\ ch[id].cached /\ ch[id].guild = g
                    /\ ch[id].type = "category" /\ ch[id].name = name}
    IN  IF found = {} THEN 0 ELSE CHOOSE id \in found : \A o \in found : id <= o

\* category.children.cache.size
ChildCount(ch, cat) ==
    Cardinality({id \in DOMAIN ch : ch[id].cached /\ ch[id].parent = cat})

\* The channel a successful guild.channels.create() adds to the cache.
NewChannel(g, type, name, parent) ==
    [guild |-> g, type |-> type, name |-> name, parent |-> parent, cached |-> TRUE]

\* A successful delete: the channel leaves the cache, and the channels of a
\* deleted category lose their parent.
Uncache(ch, id) ==
    [c \in DOMAIN ch |->
        IF c = id THEN [ch[c] EXCEPT !.cached = FALSE]
        ELSE IF ch[c].parent = id THEN [ch[c] EXCEPT !.parent = 0]
        ELSE ch[c]]

\* Bookkeeping of the reconcile passes (renames and failures count the
\* setName calls issued for the guild at hand and the calls that failed,
\* failures0 is failures when the guild was begun, syncedAtStart says whether
\* its channels bore their names then): a pass at work on guild g is no
\* longer undisturbed once the membership or the configs of g change.
Disturbed(passes, g) ==
    [p \in DOMAIN passes |->
        IF passes[p].guild = g /\ passes[p].pc \in {"fetch", "setName", "log"}
        THEN [passes[p] EXCEPT !.undisturbed = FALSE]
        ELSE passes[p]]

\* ------------------------------------------------------- handleCounterSetup
\* interactionCreate with /counter-setup: the permission check of line 194,
\* then the rejection reply or deferReply.
SetupStart(s, g, type, name, perm) ==
    /\ Running
    /\ setup[s].pc = "idle"
    /\ \A o \in 1..(s - 1) : setup[o].pc # "idle"
    /\ g \in guildCache
    /\ setup' = [setup EXCEPT ![s] =
            [IdleSetup EXCEPT !.pc = IF perm THEN "deferReply" ELSE "reply",
                              !.embed = IF perm THEN "none" ELSE "rejected",
                              !.guild = g, !.type = type, !.categoryName = name]]
    /\ UNCHANGED <<counterConfigs, file, guildCache, chans, members, reset,
                   sweep, debounce, loader, saver, counts, list, proc>>

\* The rejection reply of line 195 settles; it is returned, not awaited, so
\* its failure leaves the handler without passing through the catch.
SetupReplied(s, ok) ==
    /\ Running
    /\ setup[s].pc = "reply"
    /\ setup' = [setup EXCEPT ![s].pc = "done",
                              ![s].reply = IF ok THEN "rejected" ELSE "none",
                              ![s].responses = IF ok THEN 1 ELSE 0,
                              ![s].rejected = ~ok]
    /\ UNCHANGED <<counterConfigs, file, guildCache, chans, members, reset,
                   sweep, debounce, loader, saver, counts, list, proc>>

\* deferReply resolves: the category is looked up in the cache (line 204) and
\* either found, and the membership fetch issued, or its creation issued.
SetupDeferred(s) ==
    /\ Running
    /\ setup[s].pc = "deferReply"
    /\ LET cat == FindCategory(chans, setup[s].guild, setup[s].categoryName)
       IN  setup' = [setup EXCEPT ![s].pc = IF cat = 0 THEN "createCategory" ELSE "fetch",
                                  ![s].category = cat,
                                  ![s].deferred = TRUE]
    /\ UNCHANGED <<counterConfigs, file, guildCache, chans, members, reset,
                   sweep, debounce, loader, saver, counts, list, proc>>

\* A slip in the set-up: the guild's entry made before the calls, so that a
\* rejected call leaves an empty entry behind.
SetupCallFailedKeepsEntry(s) ==
    /\ Running
    /\ setup[s].pc \in {"deferReply", "createCategory", "fetch", "createChannel"}
    /\ setup' = [setup EXCEPT ![s].pc = "editReply", ![s].embed = "error",
                              ![s].rejected = (setup[s].pc = "deferReply")]
    /\ counterConfigs' =
           IF MapHas(counterConfigs, setup[s].guild) THEN counterConfigs
           ELSE MapSet(counterConfigs, setup[s].guild, <<>>)
    /\ UNCHANGED <<file, guildCache, chans, members, reset, sweep, debounce,
                   loader, saver, counts, list, proc>>

\* An awaited call before the append rejects (deferReply, the category's
\* creation, members.fetch or the channel's creation): the catch of line 294
\* logs and issues editReply with the error embed.
SetupCallFailed(s) ==
    /\ Running
    /\ setup[s].pc \in {"deferReply", "createCategory", "fetch", "createChannel"}
    /\ setup' = [setup EXCEPT ![s].pc = "editReply", ![s].embed = "error",
                              ![s].rejected = (setup[s].pc = "deferReply")]
    /\ UNCHANGED <<counterConfigs, file, guildCache, chans, members, reset,
                   sweep, debounce, loader, saver, counts, list, proc>>

\* channels.create of the category resolves (line 209): the fetch is issued.
SetupCategoryCreated(s) ==
    /\ Running
    /\ setup[s].pc = "createCategory"
    /\ chans' = Append(chans, NewChannel(setup[s].guild, "category",
                                         setup[s].categoryName, 0))
    /\ setup' = [setup EXCEPT ![s].pc = "fetch", ![s].category = Len(chans) + 1]
    /\ UNCHANGED <<counterConfigs, file, guildCache, members, reset, sweep,
                   debounce, loader, saver, counts, list, proc>>

\* A slip in the set-up: the guild's entry made before the channel's
\* creation is awaited.
SetupFetchedMakesEntry(s) ==
    /\ Running
    /\ setup[s].pc = "fetch"
    /\ LET count == getCountForType(members[setup[s].guild], setup[s].type)
       IN  setup' = [setup EXCEPT ![s].pc = "createChannel",
                                  ![s].count = count,
                                  ![s].channelName = ChannelName(setup[s].type, count)]
    /\ counterConfigs' =
           IF MapHas(counterConfigs, setup[s].guild) THEN counterConfigs
           ELSE MapSet(counterConfigs, setup[s].guild, <<>>)
    /\ UNCHANGED <<file, guildCache, chans, members, reset, sweep, debounce,
                   loader, saver, counts, list, proc>>

\* members.fetch resolves in getCountForType (line 222): the count is taken,
\* the name formatted and the channel's creation issued.
SetupFetched(s) ==
    /\ Running
    /\ setup[s].pc = "fetch"
    /\ LET count == getCountForType(members[setup[s].guild], setup[s].type)
       IN  setup' = [setup EXCEPT ![s].pc = "createChannel",
                                  ![s].count = count,
                                  ![s].channelName = ChannelName(setup[s].type, count)]
    /\ UNCHANGED <<counterConfigs, file, guildCache, chans, members, reset,
                   sweep, debounce, loader, saver, counts, list, proc>>

\* A slip in the append: the guild's array set anew with the one config.
StoreConfigReplaces(map, g, cfg) == MapSet(map, g, <<cfg>>)

\* Lines 239-248: the guild's entry is created if absent and the config of
\* the new channel pushed.
StoreConfig(map, g, cfg) ==
    MapPush(IF MapHas(map, g) THEN map ELSE MapSet(map, g, <<>>), g, cfg)

\* channels.create of the counter channel resolves (line 226; the platform
\* creates no channel under a category that is gone): the config is stored
\* and saveConfigs called, which issues fs.writeFile.
SetupChannelCreated(s) ==
    /\ Running
    /\ setup[s].pc = "createChannel"
    /\ ChannelCached(chans, setup[s].guild, setup[s].category)
    /\ chans' = Append(chans, NewChannel(setup[s].guild, "voice",
                                         setup[s].channelName, setup[s].category))
    /\ counterConfigs' =
           StoreConfig(counterConfigs, setup[s].guild,
                       [channelId |-> Len(chans) + 1, type |-> setup[s].type,
                        categoryId |-> setup[s].category])
    /\ setup' = [setup EXCEPT ![s].pc = "writeFile",
                              ![s].channel = Len(chans) + 1,
                              ![s].doc = Serialize(counterConfigs', guildCache)]
    /\ sweep' = Disturbed(sweep, setup[s].guild)
    /\ debounce' = Disturbed(debounce, setup[s].guild)
    /\ UNCHANGED <<file, guildCache, members, reset, loader, saver, counts, list, proc>>

\* fs.writeFile of saveConfigs settles (a failure is logged by saveConfigs):
\* the completion is logged and editReply issued with the success embed.
SetupWritten(s, ok) ==
    /\ Running
    /\ setup[s].pc = "writeFile"
    /\ file' = IF ok THEN setup[s].doc ELSE file
    /\ setup' = [setup EXCEPT ![s].pc = "editReply", ![s].embed = "success"]
    /\ UNCHANGED <<counterConfigs, guildCache, chans, members, reset, sweep,
                   debounce, loader, saver, counts, list, proc>>

\* editReply settles; it resolves only on an interaction whose deferReply
\* resolved (on another it throws before any request).  A rejected editReply
\* of the success embed is inside the try: the catch issues editReply with
\* the error embed; a rejected editReply of the error embed leaves the
\* handler.
SetupEditReplied(s, ok) ==
    /\ Running
    /\ setup[s].pc = "editReply"
    /\ ok => setup[s].deferred
    /\ setup' = [setup EXCEPT ![s] =
            IF ok THEN [setup[s] EXCEPT !.pc = "done", !.reply = setup[s].embed,
                                        !.responses = @ + 1]
            ELSE IF setup[s].embed = "success"
            THEN [setup[s] EXCEPT !.embed = "error", !.rejected = TRUE]
            ELSE [setup[s] EXCEPT !.pc = "done",
                                  !.rejected = @ \/ setup[s].deferred]]
    /\ UNCHANGED <<counterConfigs, file, guildCache, chans, members, reset,
                   sweep, debounce, loader, saver, counts, list, proc>>

\* ------------------------------------------------------- handleCounterReset
\* interactionCreate with /counter-reset: the permission check of line 342,
\* then the rejection reply or deferReply.
ResetStart(r, g, perm) ==
    /\ Running
    /\ reset[r].pc = "idle"
    /\ \A o \in 1..(r - 1) : reset[o].pc # "idle"
    /\ g \in guildCache
    /\ reset' = [reset EXCEPT ![r] =
            [IdleReset EXCEPT !.pc = IF perm THEN "deferReply" ELSE "reply",
                              !.embed = IF perm THEN "none" ELSE "rejected",
                              !.guild = g]]
    /\ UNCHANGED <<counterConfigs, file, guildCache, chans, members, setup,
                   sweep, debounce, loader, saver, counts, list, proc>>

\* The rejection reply of line 343 settles (returned, not awaited).
ResetReplied(r, ok) ==
    /\ Running
    /\ reset[r].pc = "reply"
    /\ reset' = [reset EXCEPT ![r].pc = "done",
                              ![r].reply = IF ok THEN "rejected" ELSE "none",
                              ![r].responses = IF ok THEN 1 ELSE 0,
                              ![r].rejected = ~ok]
    /\ UNCHANGED <<counterConfigs, file, guildCache, chans, members, setup,
                   sweep, debounce, loader, saver, counts, list, proc>>

\* The loop of lines 371-393 from the start of iteration i (ResetLoop) and
\* from the category check of iteration i (ResetCategory), run over the
\* cache ch up to the next awaited delete; pc "clear" when the loop is over.
RECURSIVE ResetLoop(_, _, _, _), ResetCategory(_, _, _, _)
ResetLoop(rec, i, map, ch) ==
    LET configs == map[rec.pos].configs
    IN  IF i > Len(configs)
        THEN [rec EXCEPT !.pc = "clear", !.i = i, !.channel = 0, !.category = 0]
        ELSE IF ChannelCached(ch, rec.guild, configs[i].channelId)
        THEN [rec EXCEPT !.pc = "deleteChannel", !.i = i, !.category = 0,
                         !.channel = configs[i].channelId,
                         !.deleteCalls = @ + 1]
        ELSE ResetCategory(rec, i, map, ch)

ResetCategory(rec, i, map, ch) ==
    LET cat == map[rec.pos].configs[i].categoryId
    IN  IF ChannelCached(ch, rec.guild, cat) /\ ChildCount(ch, cat) = 0
        THEN [rec EXCEPT !.pc = "deleteCategory", !.i = i, !.category = cat,
                         !.deleteCalls = @ + 1]
        ELSE ResetLoop(rec, i + 1, map, ch)

\* A timer of an event of guild g has not fired yet.
TimerPending(g) ==
    \E d \in DebounceIds : debounce[d].pc = "timer" /\ debounce[d].guild = g

\* A slip in the teardown: the guild's entry kept when a deletion failed.
ResetRunsToKeepsFailed(r, rec) ==
    IF rec.pc = "clear"
    THEN /\ counterConfigs' = IF rec.failedDeletions = 0
                              THEN MapDelete(counterConfigs, rec.guild)
                              ELSE counterConfigs
         /\ reset' = [reset EXCEPT ![r] =
                [rec EXCEPT !.pc = "writeFile",
                            !.timerPending = TimerPending(rec.guild),
                            !.doc = Serialize(counterConfigs', guildCache)]]
    ELSE /\ reset' = [reset EXCEPT ![r] = rec]
         /\ UNCHANGED counterConfigs

\* The handler runs on to rec: either to an awaited delete, or past the loop,
\* where lines 396-397 delete the guild's entry and call saveConfigs, which
\* issues fs.writeFile.
ResetRunsTo(r, rec) ==
    IF rec.pc = "clear"
    THEN /\ counterConfigs' = MapDelete(counterConfigs, rec.guild)
         /\ reset' = [reset EXCEPT ![r] =
                [rec EXCEPT !.pc = "writeFile",
                            !.timerPending = TimerPending(rec.guild),
                            !.doc = Serialize(counterConfigs', guildCache)]]
    ELSE /\ reset' = [reset EXCEPT ![r] = rec]
         /\ UNCHANGED counterConfigs

\* A slip in the check of line 354: the length of the array not looked at.
NothingToResetOnlyAbsent(map, g) == MapPos(map, g) = 0

\* counterConfigs.get(guildId) is absent or empty (line 354).
NothingToReset(map, g) ==
    MapPos(map, g) = 0 \/ map[MapPos(map, g)].configs = <<>>

\* deferReply resolves: with no configs, editReply is issued with the
\* no-counters embed; else the loop starts.
ResetDeferred(r) ==
    /\ Running
    /\ reset[r].pc = "deferReply"
    /\ IF NothingToReset(counterConfigs, reset[r].guild)
       THEN /\ reset' = [reset EXCEPT ![r].pc = "editReply",
                                      ![r].embed = "noCounters",
                                      ![r].deferred = TRUE]
            /\ UNCHANGED counterConfigs
       ELSE ResetRunsTo(r,
               ResetLoop([reset[r] EXCEPT !.pos = MapPos(counterConfigs, reset[r].guild),
                                          !.deferred = TRUE],
                         1, counterConfigs, chans))
    /\ UNCHANGED <<file, guildCache, chans, members, setup, sweep, debounce,
                   loader, saver, counts, list, proc>>

\* deferReply rejects: the outer catch (line 435) issues editReply with the
\* error embed.
ResetDeferFailed(r) ==
    /\ Running
    /\ reset[r].pc = "deferReply"
    /\ reset' = [reset EXCEPT ![r].pc = "editReply", ![r].embed = "error",
                              ![r].rejected = TRUE]
    /\ UNCHANGED <<counterConfigs, file, guildCache, chans, members, setup,
                   sweep, debounce, loader, saver, counts, list, proc>>

\* channel.delete() resolves (line 375): deletedChannels++, then the
\* category check of the same iteration.
ResetChannelDeleted(r) ==
    /\ Running
    /\ reset[r].pc = "deleteChannel"
    /\ chans[reset[r].channel].cached
    /\ chans' = Uncache(chans, reset[r].channel)
    /\ ResetRunsTo(r,
          ResetCategory([reset[r] EXCEPT !.deletedChannels = @ + 1],
                        reset[r].i, counterConfigs, chans'))
    /\ UNCHANGED <<file, guildCache, members, setup, sweep, debounce, loader,
                   saver, counts, list, proc>>

\* channel.delete() rejects: the catch of line 385 counts it and logs.
ResetChannelDeleteFailed(r) ==
    /\ Running
    /\ reset[r].pc = "deleteChannel"
    /\ reset' = [reset EXCEPT ![r].pc = "log",
                              ![r].failedDeletions = @ + 1,
                              ![r].channelFailures = @ + 1]
    /\ UNCHANGED <<counterConfigs, file, guildCache, chans, members, setup,
                   sweep, debounce, loader, saver, counts, list, proc>>

\* category.delete() resolves (line 382): the next iteration starts.
ResetCategoryDeleted(r) ==
    /\ Running
    /\ reset[r].pc = "deleteCategory"
    /\ chans[reset[r].category].cached
    /\ chans' = Uncache(chans, reset[r].category)
    /\ ResetRunsTo(r, ResetLoop(reset[r], reset[r].i + 1, counterConfigs, chans'))
    /\ UNCHANGED <<file, guildCache, members, setup, sweep, debounce, loader,
                   saver, counts, list, proc>>

\* category.delete() rejects: the same catch counts it and logs.
ResetCategoryDeleteFailed(r) ==
    /\ Running
    /\ reset[r].pc = "deleteCategory"
    /\ reset' = [reset EXCEPT ![r].pc = "log", ![r].failedDeletions = @ + 1]
    /\ UNCHANGED <<counterConfigs, file, guildCache, chans, members, setup,
                   sweep, debounce, loader, saver, counts, list, proc>>

\* The logMessage of the catch (line 387) returns: the next iteration starts.
ResetLogged(r) ==
    /\ Running
    /\ reset[r].pc = "log"
    /\ ResetRunsTo(r, ResetLoop(reset[r], reset[r].i + 1, counterConfigs, chans))
    /\ UNCHANGED <<file, guildCache, chans, members, setup, sweep, debounce,
                   loader, saver, counts, list, proc>>

\* fs.writeFile of saveConfigs settles: the completion is logged and
\* editReply issued with the success embed (the two counts).
ResetWritten(r, ok) ==
    /\ Running
    /\ reset[r].pc = "writeFile"
    /\ file' = IF ok THEN reset[r].doc ELSE file
    /\ reset' = [reset EXCEPT ![r].pc = "editReply", ![r].embed = "success"]
    /\ UNCHANGED <<counterConfigs, guildCache, chans, members, setup, sweep,
                   debounce, loader, saver, counts, list, proc>>

\* editReply settles (it resolves only on a deferred interaction); a
\* rejected editReply of the success or no-counters embed passes to the outer
\* catch, which issues the error embed.
ResetEditReplied(r, ok) ==
    /\ Running
    /\ reset[r].pc = "editReply"
    /\ ok => reset[r].deferred
    /\ reset' = [reset EXCEPT ![r] =
            IF ok THEN [reset[r] EXCEPT !.pc = "done", !.reply = reset[r].embed,
                                        !.responses = @ + 1]
            ELSE IF reset[r].embed # "error"
            THEN [reset[r] EXCEPT !.embed = "error", !.rejected = TRUE]
            ELSE [reset[r] EXCEPT !.pc = "done",
                                  !.rejected = @ \/ reset[r].deferred]]
    /\ UNCHANGED <<counterConfigs, file, guildCache, chans, members, setup,
                   sweep, debounce, loader, saver, counts, list, proc>>

\* ------------------------------------------------------- the reconcile passes
\* `${COUNTER_TYPES[config.type]}: ${count}` for the membership mem.
TargetName(mem, g, config) ==
    ChannelName(config.type, getCountForType(mem[g], config.type))

\* Every cached counter channel of the configs array at Map position pos
\* bears the name its config gives it for the membership mem.
SyncedArray(map, ch, mem, pos) ==
    \A i \in DOMAIN map[pos].configs :
        LET config == map[pos].configs[i]
        IN  ChannelCached(ch, map[pos].guildId, config.channelId)
               => ch[config.channelId].name = TargetName(mem, map[pos].guildId, config)

\* A pass other than (kind, id) is awaiting a call for guild g.
OtherPassAtWork(g, kind, id) ==
    \/ \E d \in DebounceIds :
          /\ kind # "debounce" \/ d # id
          /\ debounce[d].guild = g /\ debounce[d].pc \in {"fetch", "setName"}
    \/ \E w \in SweepIds :
          /\ kind # "sweep" \/ w # id
          /\ sweep[w].guild = g /\ sweep[w].pc \in {"fetch", "setName", "log"}

\* Bookkeeping: one more call of the pass has failed.
Failed(rec) == [rec EXCEPT !.failures = @ + 1]

\* The loop of updateGuildCounters (lines 615-630) from the start of
\* iteration i over the cache ch, up to the next awaited members.fetch; a
\* config whose channel is not cached is passed over (line 618).
RECURSIVE GuildLoop(_, _, _, _)
GuildLoop(rec, i, map, ch) ==
    LET configs == map[rec.pos].configs
    IN  IF i > Len(configs)
        THEN [rec EXCEPT !.pc = "done", !.i = i, !.channel = 0, !.newName = ""]
        ELSE IF ChannelCached(ch, rec.guild, configs[i].channelId)
        THEN [rec EXCEPT !.pc = "fetch", !.i = i, !.newName = "",
                         !.channel = configs[i].channelId]
        ELSE GuildLoop(rec, i + 1, map, ch)

\* guildMemberAdd (line 528): a user joins guild g, and the handler sets the
\* timer of a reconcile of g.
GuildMemberAdd(d, g, id, presence) ==
    /\ Running
    /\ debounce[d].pc = "idle"
    /\ \A o \in 1..(d - 1) : debounce[o].pc # "idle"
    /\ g \in guildCache
    /\ \A m \in members[g] : m.id # id
    /\ members' = [members EXCEPT ![g] = @ \cup {Member(id, presence)}]
    /\ debounce' = [Disturbed(debounce, g) EXCEPT ![d] =
                        [IdlePass EXCEPT !.pc = "timer", !.guild = g]]
    /\ sweep' = Disturbed(sweep, g)
    /\ UNCHANGED <<counterConfigs, file, guildCache, chans, setup, reset,
                   loader, saver, counts, list, proc>>

\* guildMemberRemove (line 532): a user other than the bot leaves guild g.
GuildMemberRemove(d, g, id) ==
    /\ Running
    /\ debounce[d].pc = "idle"
    /\ \A o \in 1..(d - 1) : debounce[o].pc # "idle"
    /\ g \in guildCache
    /\ id # 2
    /\ \E m \in members[g] : m.id = id
    /\ members' = [members EXCEPT ![g] = {m \in @ : m.id # id}]
    /\ debounce' = [Disturbed(debounce, g) EXCEPT ![d] =
                        [IdlePass EXCEPT !.pc = "timer", !.guild = g]]
    /\ sweep' = Disturbed(sweep, g)
    /\ UNCHANGED <<counterConfigs, file, guildCache, chans, setup, reset,
                   loader, saver, counts, list, proc>>

\* presenceUpdate (line 537): the presence of a member of guild g changes.
PresenceUpdate(d, g, id, presence) ==
    /\ Running
    /\ debounce[d].pc = "idle"
    /\ \A o \in 1..(d - 1) : debounce[o].pc # "idle"
    /\ g \in guildCache
    /\ \E m \in members[g] : m.id = id /\ m.presence # presence
    /\ members' = [members EXCEPT ![g] =
                      {m \in @ : m.id # id} \cup {Member(id, presence)}]
    /\ debounce' = [Disturbed(debounce, g) EXCEPT ![d] =
                        [IdlePass EXCEPT !.pc = "timer", !.guild = g]]
    /\ sweep' = Disturbed(sweep, g)
    /\ UNCHANGED <<counterConfigs, file, guildCache, chans, setup, reset,
                   loader, saver, counts, list, proc>>

\* A unit of time passes for the pending timers.
Tick ==
    /\ Running
    /\ \E d \in DebounceIds :
          debounce[d].pc = "timer" /\ debounce[d].age < DebounceDelay
    /\ debounce' = [d \in DebounceIds |->
            IF debounce[d].pc = "timer" /\ debounce[d].age < DebounceDelay
            THEN [debounce[d] EXCEPT !.age = @ + 1]
            ELSE debounce[d]]
    /\ UNCHANGED <<counterConfigs, file, guildCache, chans, members, setup,
                   reset, sweep, loader, saver, counts, list, proc>>

\* A slip in the handlers: updateGuildCounters called from the handler, with
\* no timer.
DebounceFireAtOnce(d) ==
    /\ Running
    /\ debounce[d].pc = "timer"
    /\ LET g == debounce[d].guild
           pos == MapPos(counterConfigs, g)
       IN  debounce' = [debounce EXCEPT ![d] =
               IF pos = 0 THEN [debounce[d] EXCEPT !.pc = "done", !.age = 0]
               ELSE GuildLoop(
                      [debounce[d] EXCEPT
                          !.pos = pos, !.age = 0,
                          !.syncedAtStart = SyncedArray(counterConfigs, chans, members, pos),
                          !.undisturbed = ~OtherPassAtWork(g, "debounce", d)],
                      1, counterConfigs, chans)]
    /\ UNCHANGED <<counterConfigs, file, guildCache, chans, members, setup,
                   reset, sweep, loader, saver, counts, list, proc>>

\* A slip in updateGuildCounters: no check of the entry, so that the loop
\* over the configs of a guild without entry throws.
DebounceFireNoCheck(d) ==
    /\ Running
    /\ debounce[d].pc = "timer"
    /\ debounce[d].age >= DebounceDelay
    /\ LET g == debounce[d].guild
           pos == MapPos(counterConfigs, g)
       IN  debounce' = [debounce EXCEPT ![d] =
               IF pos = 0 THEN [Failed(debounce[d]) EXCEPT !.pc = "done", !.age = 0]
               ELSE GuildLoop(
                      [debounce[d] EXCEPT
                          !.pos = pos, !.age = 0,
                          !.syncedAtStart = SyncedArray(counterConfigs, chans, members, pos),
                          !.undisturbed = ~OtherPassAtWork(g, "debounce", d)],
                      1, counterConfigs, chans)]
    /\ UNCHANGED <<counterConfigs, file, guildCache, chans, members, setup,
                   reset, sweep, loader, saver, counts, list, proc>>

\* The timer fires, once its delay has passed, and updateGuildCounters(guild)
\* runs: it returns when the guild has no entry (line 613), else it starts
\* its loop.
DebounceFire(d) ==
    /\ Running
    /\ debounce[d].pc = "timer"
    /\ debounce[d].age >= DebounceDelay
    /\ LET g == debounce[d].guild
           pos == MapPos(counterConfigs, g)
       IN  debounce' = [debounce EXCEPT ![d] =
               IF pos = 0 THEN [debounce[d] EXCEPT !.pc = "done", !.age = 0]
               ELSE GuildLoop(
                      [debounce[d] EXCEPT
                          !.pos = pos, !.age = 0,
                          !.syncedAtStart = SyncedArray(counterConfigs, chans, members, pos),
                          !.undisturbed = ~OtherPassAtWork(g, "debounce", d)],
                      1, counterConfigs, chans)]
    /\ UNCHANGED <<counterConfigs, file, guildCache, chans, members, setup,
                   reset, sweep, loader, saver, counts, list, proc>>

\* A slip in the comparison: setName issued whatever name the channel bears.
NeedsRenameAlways(ch, id, newName) == id \in DOMAIN ch

\* channel.name !== newName (line 623), on the channel object the pass holds.
NeedsRename(ch, id, newName) == ch[id].name # newName

\* members.fetch resolves in getCountForType (line 620): the name is
\* computed and compared, and setName issued if it differs; else the loop
\* goes on.
DebounceFetched(d) ==
    /\ Running
    /\ debounce[d].pc = "fetch"
    /\ LET rec == debounce[d]
           newName == TargetName(members, rec.guild,
                                 counterConfigs[rec.pos].configs[rec.i])
       IN  debounce' = [debounce EXCEPT ![d] =
               IF NeedsRename(chans, rec.channel, newName)
               THEN [rec EXCEPT !.pc = "setName", !.newName = newName,
                                !.renames = @ + 1]
               ELSE GuildLoop(rec, rec.i + 1, counterConfigs, chans)]
    /\ UNCHANGED <<counterConfigs, file, guildCache, chans, members, setup,
                   reset, sweep, loader, saver, counts, list, proc>>

\* A slip in the catch: the config whose call failed is taken out of the
\* guild's array.
DebounceCallFailedPrunes(d) ==
    /\ Running
    /\ debounce[d].pc \in {"fetch", "setName"}
    /\ LET rec == debounce[d]
           configs == counterConfigs[rec.pos].configs
           kept == [j \in 1..(Len(configs) - 1) |->
                       IF j < rec.i THEN configs[j] ELSE configs[j + 1]]
       IN  /\ counterConfigs' = [counterConfigs EXCEPT ![rec.pos].configs = kept]
           /\ debounce' = [debounce EXCEPT ![d] =
                  GuildLoop(Failed(rec), rec.i, counterConfigs', chans)]
    /\ UNCHANGED <<file, guildCache, chans, members, setup, reset, sweep,
                   loader, saver, counts, list, proc>>

\* members.fetch or setName rejects: the catch of line 627 writes to the
\* console and the loop goes on.
DebounceCallFailed(d) ==
    /\ Running
    /\ debounce[d].pc \in {"fetch", "setName"}
    /\ debounce' = [debounce EXCEPT ![d] =
           GuildLoop(Failed(debounce[d]), debounce[d].i + 1,
                     counterConfigs, chans)]
    /\ UNCHANGED <<counterConfigs, file, guildCache, chans, members, setup,
                   reset, sweep, loader, saver, counts, list, proc>>

\* channel.setName resolves (line 624; only for a channel that exists): the
\* channel bears the new name and the loop goes on.
DebounceRenamed(d) ==
    /\ Running
    /\ debounce[d].pc = "setName"
    /\ chans[debounce[d].channel].cached
    /\ chans' = [chans EXCEPT ![debounce[d].channel].name = debounce[d].newName]
    /\ debounce' = [debounce EXCEPT ![d] =
           GuildLoop(debounce[d], debounce[d].i + 1, counterConfigs, chans')]
    /\ UNCHANGED <<counterConfigs, file, guildCache, members, setup, reset,
                   sweep, loader, saver, counts, list, proc>>

\* updateAllCounters (lines 494-524): SweepGuilds is the outer loop from Map
\* position gi on, passing over deleted entries and guilds the cache does
\* not resolve (line 496); SweepLoop is the inner loop from iteration i on.
\* Both run over the cache ch up to the next awaited members.fetch.
RECURSIVE SweepGuilds(_, _, _, _, _), SweepLoop(_, _, _, _, _)
SweepGuilds(w, rec, gi, map, ch) ==
    IF gi > Len(map)
    THEN [rec EXCEPT !.pc = "done", !.pos = gi, !.guild = "", !.channel = 0,
                     !.newName = ""]
    ELSE IF map[gi].deleted \/ map[gi].guildId \notin guildCache
    THEN SweepGuilds(w, rec, gi + 1, map, ch)
    ELSE SweepLoop(w,
            [rec EXCEPT !.pos = gi, !.guild = map[gi].guildId, !.renames = 0,
                        !.failures0 = rec.failures,
                        !.syncedAtStart = SyncedArray(map, ch, members, gi),
                        !.undisturbed = ~OtherPassAtWork(map[gi].guildId, "sweep", w)],
            1, map, ch)

SweepLoop(w, rec, i, map, ch) ==
    LET configs == map[rec.pos].configs
    IN  IF i > Len(configs) THEN SweepGuilds(w, rec, rec.pos + 1, map, ch)
        ELSE IF ChannelCached(ch, rec.guild, configs[i].channelId)
        THEN [rec EXCEPT !.pc = "fetch", !.i = i, !.newName = "",
                         !.channel = configs[i].channelId]
        ELSE SweepLoop(w, rec, i + 1, map, ch)

\* The interval timer of line 168 calls updateAllCounters.
SweepStart(w) ==
    /\ Running
    /\ sweep[w].pc = "idle"
    /\ \A o \in 1..(w - 1) : sweep[o].pc # "idle"
    /\ sweep' = [sweep EXCEPT ![w] =
                    SweepGuilds(w, sweep[w], 1, counterConfigs, chans)]
    /\ UNCHANGED <<counterConfigs, file, guildCache, chans, members, setup,
                   reset, debounce, loader, saver, counts, list, proc>>

\* members.fetch resolves in getCountForType (line 503): the name is
\* computed and compared, and setName issued if it differs; else the loop
\* goes on.
SweepFetched(w) ==
    /\ Running
    /\ sweep[w].pc = "fetch"
    /\ LET rec == sweep[w]
           newName == TargetName(members, rec.guild,
                                 counterConfigs[rec.pos].configs[rec.i])
       IN  sweep' = [sweep EXCEPT ![w] =
               IF NeedsRename(chans, rec.channel, newName)
               THEN [rec EXCEPT !.pc = "setName", !.newName = newName,
                                !.renames = @ + 1]
               ELSE SweepLoop(w, rec, rec.i + 1, counterConfigs, chans)]
    /\ UNCHANGED <<counterConfigs, file, guildCache, chans, members, setup,
                   reset, debounce, loader, saver, counts, list, proc>>

\* A slip in the error handling: the try around the whole sweep, so that a
\* rejected call ends it.
SweepCallFailedAborts(w) ==
    /\ Running
    /\ sweep[w].pc \in {"fetch", "setName"}
    /\ sweep' = [sweep EXCEPT ![w] = [Failed(sweep[w]) EXCEPT !.pc = "done"]]
    /\ UNCHANGED <<counterConfigs, file, guildCache, chans, members, setup,
                   reset, debounce, loader, saver, counts, list, proc>>

\* members.fetch or setName rejects: the catch of line 515 awaits logMessage.
SweepCallFailed(w) ==
    /\ Running
    /\ sweep[w].pc \in {"fetch", "setName"}
    /\ sweep' = [sweep EXCEPT ![w] = [Failed(sweep[w]) EXCEPT !.pc = "log"]]
    /\ UNCHANGED <<counterConfigs, file, guildCache, chans, members, setup,
                   reset, debounce, loader, saver, counts, list, proc>>

\* channel.setName resolves (line 507): the channel bears the new name, and
\* logMessage is awaited (line 508).
SweepRenamed(w) ==
    /\ Running
    /\ sweep[w].pc = "setName"
    /\ chans[sweep[w].channel].cached
    /\ chans' = [chans EXCEPT ![sweep[w].channel].name = sweep[w].newName]
    /\ sweep' = [sweep EXCEPT ![w].pc = "log"]
    /\ UNCHANGED <<counterConfigs, file, guildCache, members, setup, reset,
                   debounce, loader, saver, counts, list, proc>>

\* logMessage returns: the loop goes on.
SweepLogged(w) ==
    /\ Running
    /\ sweep[w].pc = "log"
    /\ sweep' = [sweep EXCEPT ![w] =
                    SweepLoop(w, sweep[w], sweep[w].i + 1, counterConfigs, chans)]
    /\ UNCHANGED <<counterConfigs, file, guildCache, chans, members, setup,
                   reset, debounce, loader, saver, counts, list, proc>>

\* --------------------------------------------------------- listCounterTypes
\* interactionCreate with /counter-list: the embed is built and
\* interaction.reply issued (line 336).
ListStart(l) ==
    /\ Running
    /\ list[l].pc = "idle"
    /\ \A o \in 1..(l - 1) : list[o].pc # "idle"
    /\ list' = [list EXCEPT ![l].pc = "reply"]
    /\ UNCHANGED <<counterConfigs, file, guildCache, chans, members, setup,
                   reset, sweep, debounce, loader, saver, counts, proc>>

\* The reply settles; listCounterTypes has no catch.
ListReplied(l, ok) ==
    /\ Running
    /\ list[l].pc = "reply"
    /\ list' = [list EXCEPT ![l] =
            [pc |-> "done", reply |-> IF ok THEN "types" ELSE "none",
             responses |-> IF ok THEN 1 ELSE 0, rejected |-> ~ok]]
    /\ UNCHANGED <<counterConfigs, file, guildCache, chans, members, setup,
                   reset, sweep, debounce, loader, saver, counts, proc>>

\* ------------------------------------------- commands outside of a guild
\* /counter-setup in a direct message (the commands are registered for the
\* application, line 146, not for a guild): interaction.member is null, the
\* permission check of line 194 throws a TypeError, and the catch of line 294
\* issues editReply with the error embed on the interaction not deferred.
SetupStartDirect(s, type, name) ==
    /\ Running
    /\ setup[s].pc = "idle"
    /\ \A o \in 1..(s - 1) : setup[o].pc # "idle"
    /\ setup' = [setup EXCEPT ![s] =
            [IdleSetup EXCEPT !.pc = "editReply", !.embed = "error",
                              !.type = type, !.categoryName = name]]
    /\ UNCHANGED <<counterConfigs, file, guildCache, chans, members, reset,
                   sweep, debounce, loader, saver, counts, list, proc>>

\* /counter-reset in a direct message: the same at line 342, and the outer
\* catch of line 435.
ResetStartDirect(r) ==
    /\ Running
    /\ reset[r].pc = "idle"
    /\ \A o \in 1..(r - 1) : reset[o].pc # "idle"
    /\ reset' = [reset EXCEPT ![r] =
            [IdleReset EXCEPT !.pc = "editReply", !.embed = "error"]]
    /\ UNCHANGED <<counterConfigs, file, guildCache, chans, members, setup,
                   sweep, debounce, loader, saver, counts, list, proc>>

\* ------------------------------------------------------ process.on handlers
ProcessKinds == {"SIGINT", "SIGTERM", "unhandledRejection", "uncaughtException"}

\* The argument of process.exit in the handler of kind.
ExitCodeOf(kind) == IF kind = "uncaughtException" THEN 1 ELSE 0

\* The documents handed to an fs.writeFile that has not settled.
WritesInFlight ==
    {saver.doc : x \in {1} \cap (IF saver.pc = "writeFile" THEN {1} ELSE {})}
    \cup {setup[s].doc : s \in {x \in SetupIds : setup[x].pc = "writeFile"}}
    \cup {reset[r].doc : r \in {x \in ResetIds : reset[x].pc = "writeFile"}}
    \cup {proc.handlers[h].doc :
            h \in {x \in SignalIds : proc.handlers[x].pc = "writeFile"}}

\* config.json cut short by the exit.
TornFile == [tag |-> "garbage", hasCounterConfigs |-> FALSE, entries |-> <<>>]

\* A signal, an unhandled rejection or an uncaught exception reaches the
\* process: its handler awaits logMessage (lines 635, 641, 648, 655).
ProcessEvent(h, kind) ==
    /\ Running
    /\ proc.handlers[h].pc = "idle"
    /\ \A o \in 1..(h - 1) : proc.handlers[o].pc # "idle"
    /\ proc' = [proc EXCEPT !.handlers[h] = [IdleHandler EXCEPT !.pc = "log", !.kind = kind]]
    /\ UNCHANGED <<counterConfigs, file, guildCache, chans, members, setup,
                   reset, sweep, debounce, loader, saver, counts, list>>

\* A slip in the handlers: saveConfigs() called without await, so that
\* process.exit runs while the write is in flight.
ProcessLoggedNoAwait(h) ==
    /\ Running
    /\ proc.handlers[h].pc = "log"
    /\ proc' = IF proc.handlers[h].kind = "unhandledRejection"
               THEN [proc EXCEPT !.handlers[h].pc = "done"]
               ELSE [proc EXCEPT !.exitCode = ExitCodeOf(proc.handlers[h].kind),
                                 !.handlers[h].pc = "exited",
                                 !.handlers[h].doc = Serialize(counterConfigs, guildCache)]
    /\ UNCHANGED <<counterConfigs, file, guildCache, chans, members, setup,
                   reset, sweep, debounce, loader, saver, counts, list>>

\* logMessage returns: the handler of unhandledRejection ends; the others
\* call saveConfigs, which builds configData and issues fs.writeFile.
ProcessLogged(h) ==
    /\ Running
    /\ proc.handlers[h].pc = "log"
    /\ proc' = [proc EXCEPT !.handlers[h] =
            IF @.kind = "unhandledRejection" THEN [@ EXCEPT !.pc = "done"]
            ELSE [@ EXCEPT !.pc = "writeFile",
                           !.doc = Serialize(counterConfigs, guildCache)]]
    /\ UNCHANGED <<counterConfigs, file, guildCache, chans, members, setup,
                   reset, sweep, debounce, loader, saver, counts, list>>

\* fs.writeFile settles in saveConfigs (lines 57-61), which awaits
\* logMessage of the outcome.
ProcessSaved(h, ok) ==
    /\ Running
    /\ proc.handlers[h].pc = "writeFile"
    /\ file' = IF ok THEN proc.handlers[h].doc ELSE file
    /\ proc' = [proc EXCEPT !.handlers[h].pc = "exit",
                            !.handlers[h].saved = IF ok THEN "written" ELSE "failed"]
    /\ UNCHANGED <<counterConfigs, guildCache, chans, members, setup, reset,
                   sweep, debounce, loader, saver, counts, list>>

\* saveConfigs returns and process.exit(code) is called (lines 637, 643,
\* 660).  A write of another task that has not settled is cut short: the file
\* is as it was, as that write would leave it, or torn.
ProcessExit(h) ==
    /\ Running
    /\ proc.handlers[h].pc = "exit"
    /\ file' \in {file} \cup WritesInFlight
                 \cup (IF WritesInFlight = {} THEN {} ELSE {TornFile})
    /\ proc' = [proc EXCEPT !.exitCode = ExitCodeOf(proc.handlers[h].kind),
                            !.handlers[h].pc = "exited"]
    /\ UNCHANGED <<counterConfigs, guildCache, chans, members, setup, reset,
                   sweep, debounce, loader, saver, counts, list>>

\* -------------------------------------------------------- the specification
\* The presences the events of the behaviours bring.
EventPresences == {"online", "offline"}

SetupStepOf(ids) ==
    \E s \in ids :
        \/ \E g \in GuildIds, type \in SetupKinds, name \in CategoryNames,
              perm \in BOOLEAN : SetupStart(s, g, type, name, perm)
        \/ \E ok \in BOOLEAN : SetupReplied(s, ok)
        \/ SetupDeferred(s)
        \/ SetupCallFailed(s)
        \/ SetupCategoryCreated(s)
        \/ SetupFetched(s)
        \/ SetupChannelCreated(s)
        \/ \E ok \in BOOLEAN : SetupWritten(s, ok)
        \/ \E ok \in BOOLEAN : SetupEditReplied(s, ok)

SetupStep == SetupStepOf(SetupIds)

ResetStepOf(ids) ==
    \E r \in ids :
        \/ \E g \in GuildIds, perm \in BOOLEAN : ResetStart(r, g, perm)
        \/ \E ok \in BOOLEAN : ResetReplied(r, ok)
        \/ ResetDeferred(r)
        \/ ResetDeferFailed(r)
        \/ ResetChannelDeleted(r)
        \/ ResetChannelDeleteFailed(r)
        \/ ResetCategoryDeleted(r)
        \/ ResetCategoryDeleteFailed(r)
        \/ ResetLogged(r)
        \/ \E ok \in BOOLEAN : ResetWritten(r, ok)
        \/ \E ok \in BOOLEAN : ResetEditReplied(r, ok)

ResetStep == ResetStepOf(ResetIds)

EventStepOf(ids) ==
    \E d \in ids, g \in GuildIds, id \in 1..2 :
        \/ \E presence \in EventPresences : GuildMemberAdd(d, g, id, presence)
        \/ GuildMemberRemove(d, g, id)
        \/ \E presence \in EventPresences : PresenceUpdate(d, g, id, presence)

EventStep == EventStepOf(DebounceIds)

DebounceStepOf(ids) ==
    \/ Tick
    \/ \E d \in ids :
        \/ DebounceFire(d)
        \/ DebounceFetched(d)
        \/ DebounceCallFailed(d)
        \/ DebounceRenamed(d)

DebounceStep == DebounceStepOf(DebounceIds)

SweepStep ==
    \E w \in SweepIds :
        \/ SweepStart(w)
        \/ SweepFetched(w)
        \/ SweepCallFailed(w)
        \/ SweepRenamed(w)
        \/ SweepLogged(w)

ListStep ==
    \E l \in ListIds :
        \/ ListStart(l)
        \/ \E ok \in BOOLEAN : ListReplied(l, ok)

DirectStepOf(sids, rids) ==
    \/ \E s \in sids, type \in SetupKinds, name \in CategoryNames :
          SetupStartDirect(s, type, name)
    \/ \E r \in rids : ResetStartDirect(r)

DirectStep == DirectStepOf(SetupIds, ResetIds)

ProcessStep ==
    \E h \in SignalIds :
        \/ \E kind \in ProcessKinds : ProcessEvent(h, kind)
        \/ ProcessLogged(h)
        \/ \E ok \in BOOLEAN : ProcessSaved(h, ok)
        \/ ProcessExit(h)

SaveStep == SaveTick \/ SaveWritten \/ SaveFailed

\* Every task of the process, while it runs.
Next ==
    \/ LoadStart \/ LoadRead
    \/ SaveStep
    \/ SetupStep
    \/ ResetStep
    \/ ListStep
    \/ DirectStep
    \/ EventStep
    \/ DebounceStep
    \/ SweepStep
    \/ ProcessStep

Spec == Init /\ [][Next]_vars

\* The set-up commands, at once with each other and with a reset command.
NextProvision == SetupStep \/ ResetStepOf({1})

SpecProvision == Init /\ [][NextProvision]_vars

\* The process started again after a run that set up two counters in g1 and
\* one in g2 and saved them: config.json holds their configs, the guilds hold
\* their channels, each named for the membership of some earlier moment.
RestartConfigs(g) ==
    IF g = "g1"
    THEN <<[channelId |-> 2, type |-> "members", categoryId |-> 1],
           [channelId |-> 3, type |-> "online-bots", categoryId |-> 1]>>
    ELSE <<[channelId |-> 5, type |-> "members", categoryId |-> 4]>>

RestartFile ==
    [tag |-> "object", hasCounterConfigs |-> TRUE,
     entries |-> <<[key |-> "g1", value |-> JsonGuild(GuildName("g1"), RestartConfigs("g1"))],
                   [key |-> "g2", value |-> JsonGuild(GuildName("g2"), RestartConfigs("g2"))]>>]

RestartChannels(n) ==
    <<NewChannel("g1", "category", "Stats", 0),
      NewChannel("g1", "voice", ChannelName("members", n[1]), 1),
      NewChannel("g1", "voice", ChannelName("online-bots", n[2]), 1),
      NewChannel("g2", "category", "Stats", 0),
      NewChannel("g2", "voice", ChannelName("members", n[3]), 4)>>

\* The counts the three counter channels were last named for: all of them
\* stale for the membership of Init, none of them, or the first alone.
RestartCounts == {<<1, 0, 1>>, <<0, 1, 0>>, <<1, 1, 0>>}

InitRestart ==
    /\ counterConfigs = <<>>
    /\ file = RestartFile
    /\ guildCache = GuildIds
    /\ chans \in {RestartChannels(n) : n \in RestartCounts}
    /\ members = [g \in GuildIds |-> {Member(2, "online")}]
    /\ setup = [s \in SetupIds |-> IdleSetup]
    /\ reset = [r \in ResetIds |-> IdleReset]
    /\ sweep = [w \in SweepIds |-> IdlePass]
    /\ debounce = [d \in DebounceIds |-> IdlePass]
    /\ loader = IdleLoader
    /\ saver = IdleSaver
    /\ counts = NoCounts
    /\ list = [l \in ListIds |-> IdleList]
    /\ proc = IdleProc

\* The load, then the events and the two reconcile passes, in any order and
\* at once.
NextReconcile ==
    \/ LoadStart
    \/ LoadRead
    \/ EventStep
    \/ DebounceStep
    \/ SweepStep

SpecReconcile == InitRestart /\ [][NextReconcile]_vars

\* The process started again on a config.json of two guilds, then reset
\* commands: g1 holds two counters under one category, or an empty configs
\* array; the category of g2 may hold a channel that is no counter.
TeardownFiles ==
    {RestartFile,
     [tag |-> "object", hasCounterConfigs |-> TRUE,
      entries |-> <<[key |-> "g1", value |-> JsonGuild(GuildName("g1"), <<>>)],
                    [key |-> "g2", value |-> JsonGuild(GuildName("g2"), RestartConfigs("g2"))]>>]}

TeardownChannels ==
    {RestartChannels([k \in 1..3 |-> 0]),
     Append(RestartChannels([k \in 1..3 |-> 0]), NewChannel("g2", "text", "general", 4))}

InitTeardown ==
    /\ counterConfigs = <<>>
    /\ file \in TeardownFiles
    /\ guildCache = GuildIds
    /\ chans \in TeardownChannels
    /\ members = [g \in GuildIds |-> {Member(2, "online")}]
    /\ setup = [s \in SetupIds |-> IdleSetup]
    /\ reset = [r \in ResetIds |-> IdleReset]
    /\ sweep = [w \in SweepIds |-> IdlePass]
    /\ debounce = [d \in DebounceIds |-> IdlePass]
    /\ loader = IdleLoader
    /\ saver = IdleSaver
    /\ counts = NoCounts
    /\ list = [l \in ListIds |-> IdleList]
    /\ proc = IdleProc

NextTeardown == LoadStart \/ LoadRead \/ ResetStep

SpecTeardown == InitTeardown /\ [][NextTeardown]_vars

\* The process with a store of any content, its periodic saves, and the
\* signals and faults it is given.
InitShutdown ==
    /\ counterConfigs \in Stores
    /\ file = NoFile
    /\ guildCache = GuildIds
    /\ chans = <<>>
    /\ members = [g \in GuildIds |-> {}]
    /\ setup = [s \in SetupIds |-> IdleSetup]
    /\ reset = [r \in ResetIds |-> IdleReset]
    /\ sweep = [w \in SweepIds |-> IdlePass]
    /\ debounce = [d \in DebounceIds |-> IdlePass]
    /\ loader = IdleLoader
    /\ saver = IdleSaver
    /\ counts = NoCounts
    /\ list = [l \in ListIds |-> IdleList]
    /\ proc = IdleProc

NextShutdown == SaveStep \/ ProcessStep

SpecShutdown == InitShutdown /\ [][NextShutdown]_vars

\* The three commands, in a guild and in a direct message, at once with each
\* other.
NextCommands ==
    SetupStepOf({1}) \/ ResetStepOf({1, 2}) \/ ListStep \/ DirectStepOf({1}, {1, 2})

SpecCommands == Init /\ [][NextCommands]_vars

\* The process started again, then the events with their timers.
NextDebounce ==
    LoadStart \/ LoadRead \/ EventStep \/ DebounceStep

SpecDebounce == InitRestart /\ [][NextDebounce]_vars

\* The process started again in guilds that changed while it was down: the
\* second counter channel of g1 was deleted there, and user 1 joined g1.
InitSkip ==
    /\ counterConfigs = <<>>
    /\ file = RestartFile
    /\ guildCache = GuildIds
    /\ chans = Uncache(RestartChannels(<<0, 0, 1>>), 3)
    /\ members = [g \in GuildIds |->
                    IF g = "g1" THEN {Member(2, "online"), Member(1, "online")}
                    ELSE {Member(2, "online")}]
    /\ setup = [s \in SetupIds |-> IdleSetup]
    /\ reset = [r \in ResetIds |-> IdleReset]
    /\ sweep = [w \in SweepIds |-> IdlePass]
    /\ debounce = [d \in DebounceIds |-> IdlePass]
    /\ loader = IdleLoader
    /\ saver = IdleSaver
    /\ counts = NoCounts
    /\ list = [l \in ListIds |-> IdleList]
    /\ proc = IdleProc

\* Then an event with its timer and a full sweep, at once with a reset
\* command.
NextSkip ==
    \/ LoadStart
    \/ LoadRead
    \/ EventStepOf({1})
    \/ DebounceStepOf({1})
    \/ SweepStep
    \/ ResetStepOf({1})

SpecSkip == InitSkip /\ [][NextSkip]_vars

\* The process started again, then a full sweep.  The event loop runs every
\* continuation that is ready: the load and the sweep start, logMessage
\* returns, and a call for a guild other than g1 settles; a call for g1 may
\* be slow without end.
NextSweep == LoadStart \/ LoadRead \/ SweepStep

SettlesElsewhere(w) ==
    /\ sweep[w].guild # "g1"
    /\ SweepFetched(w) \/ SweepCallFailed(w) \/ SweepRenamed(w)

SpecSweepFair ==
    /\ InitRestart
    /\ [][NextSweep]_vars
    /\ WF_vars(LoadStart)
    /\ WF_vars(LoadRead)
    /\ \A w \in SweepIds :
          /\ WF_vars(SweepStart(w))
          /\ WF_vars(SweepLogged(w))
          /\ WF_vars(SettlesElsewhere(w))

\* A set-up command, the periodic save and the signals and faults of the
\* process, at once: their calls of saveConfigs overlap.
NextPersist == SetupStepOf({1}) \/ SaveStep \/ ProcessStep

SpecPersist == Init /\ [][NextPersist]_vars

\* The process started again on the config.json of an earlier run: the load,
\* at once with a reset command and the signals and faults of the process,
\* whose handlers are registered before the login (lines 174, 634-654).
NextStartup == LoadStart \/ LoadRead \/ ResetStepOf({1}) \/ ProcessStep

SpecStartup == InitRestart /\ [][NextStartup]_vars

\* =================================================================== claims

\* C8: loading the document saveConfigs wrote yields a store with the same
\* guild ids and, per guild, the same configs in the same order, whatever
\* the store (empty arrays included) and the guild cache at the save.
C8_RoundTrip ==
    [][(/\ loader.pc = "readFile" /\ loader'.pc = "done"
        /\ saver.pc = "done" /\ file = saver.doc)
       => StoreView(counterConfigs') = StoreView(counterConfigs)]_vars

\* A load of a saved document that replaced the entries of a store with an
\* empty array, a full array and a guild the cache no longer resolves.
C8_Witness ==
    /\ loader.pc = "done" /\ ~loader.warned
    /\ saver.pc = "done" /\ file = saver.doc
    /\ Len(StoreView(counterConfigs)) = 2
    /\ Len(counterConfigs) = 4
    /\ \E i \in DOMAIN file.entries : file.entries[i].value.serverName = "Unknown Server"
    /\ \E i \in DOMAIN counterConfigs :
          ~counterConfigs[i].deleted /\ counterConfigs[i].configs = <<>>
    /\ \E i \in DOMAIN counterConfigs :
          ~counterConfigs[i].deleted /\ Len(counterConfigs[i].configs) = MaxConfigs

\* The entries of a document that have one of the two accepted shapes.
IsAcceptedShape(e) ==
    \/ e.value.tag = "array"
    \/ e.value.tag = "object" /\ e.value.cfgTag = "array"

AcceptedEntries(f) ==
    [i \in DOMAIN SelectSeq(f.entries, IsAcceptedShape) |->
        [guildId |-> SelectSeq(f.entries, IsAcceptedShape)[i].key,
         configs |-> SelectSeq(f.entries, IsAcceptedShape)[i].value.items]]

\* C9: loadConfigs puts into the store exactly the entries of the two
\* accepted shapes, wherever they stand among entries of neither shape, and
\* leaves an empty store with a warning for an unreadable or unparsable file.
C9_LoadKeepsAcceptedEntries ==
    loader.pc = "done" =>
        IF file.tag \in {"nofile", "garbage"}
        THEN StoreView(counterConfigs) = <<>> /\ loader.warned
        ELSE file.tag = "object" =>
                StoreView(counterConfigs) = AcceptedEntries(file)

\* C10: every count is between 0 and the size of the membership, and
\* members + bots = size, online-members + offline-members = members,
\* online-bots + offline-bots = bots.
C10_EvaluatorSums ==
    LET size == Cardinality(members["g1"])
        Known(k) == counts[k] # -1
    IN  /\ \A k \in CounterKinds : Known(k) => counts[k] \in 0..size
        /\ Known("members") /\ Known("bots")
              => counts["members"] + counts["bots"] = size
        /\ Known("members") /\ Known("online-members") /\ Known("offline-members")
              => counts["online-members"] + counts["offline-members"] = counts["members"]
        /\ Known("bots") /\ Known("online-bots") /\ Known("offline-bots")
              => counts["online-bots"] + counts["offline-bots"] = counts["bots"]

\* Every type evaluated on a membership with an idle person, a member
\* without presence record and a bot that does not disturb.
C10_Witness ==
    /\ \A k \in CounterKinds : counts[k] # -1
    /\ Cardinality(members["g1"]) = MaxUsers
    /\ \E m \in members["g1"] : ~m.bot /\ m.presence \in {"idle", "absent"}
    /\ \E m \in members["g1"] : m.bot /\ m.presence = "dnd"


\* ------------------------------------------------------------------ C1
\* The name the config a pass is at gives its channel, for the membership
\* the fetch returns.
C1_Target(a) ==
    LET config == counterConfigs[a.pos].configs[a.i]
    IN  COUNTER_TYPES[config.type] \o ": "
            \o ToString(getCountForType(members[a.guild], config.type))

\* The step a -> b of a pass issues setName for the config it is at.
C1_RenameIssued(a, b) ==
    /\ a.pc = "fetch" /\ b.pc = "setName"
    /\ b.pos = a.pos /\ b.i = a.i /\ b.channel = a.channel
    /\ b.newName = C1_Target(a)
    /\ b.renames = a.renames + 1

\* The step a -> b of a pass is the one in which its fetch settles.
C1_FetchSettles(a, b) ==
    a.pc = "fetch" /\ (b.pc # "fetch" \/ b.i # a.i \/ b.pos # a.pos)

\* The step a -> b of a pass ends its work on the configs of a guild.
C1_GuildEnds(a, b) ==
    a.pc \in {"fetch", "setName", "log"} /\ (b.pc = "done" \/ b.pos # a.pos)

C1_PassStep(a, b) ==
    /\ C1_FetchSettles(a, b) =>
          (C1_RenameIssued(a, b)
              <=> (b.failures = a.failures /\ chans[a.channel].name # C1_Target(a)))
    /\ (b.pc = "setName" /\ a.pc # "setName") \/ b.renames > a.renames
          => C1_RenameIssued(a, b)
    /\ C1_GuildEnds(a, b) /\ a.undisturbed /\ b.failures = a.failures0
          => SyncedArray(counterConfigs', chans', members', a.pos)
    /\ b.syncedAtStart /\ b.undisturbed => b.renames = 0

\* C1: for every config whose channel exists, a reconcile pass (the debounced
\* updateGuildCounters and each guild of updateAllCounters) issues setName if
\* and only if its fetch succeeded and the computed name "<label>: <count>"
\* differs from the name the channel bears, and with no other step; a pass
\* over a guild whose membership did not change meanwhile, and whose calls
\* all succeeded, leaves every existing counter channel with its computed
\* name; and a pass over a guild whose channels bore their computed names
\* when it started, the membership unchanged since, issues no setName.
C1_RenameIffNameDiffers ==
    [][/\ \A d \in DebounceIds : C1_PassStep(debounce[d], debounce'[d])
       /\ \A w \in SweepIds : C1_PassStep(sweep[w], sweep'[w])]_vars

\* Two reconciles of one guild have ended: one renamed a channel, every call
\* of it a success, the other found the names in place and issued no rename.
C1_Witness ==
    \E d1, d2 \in DebounceIds :
        /\ d1 # d2
        /\ debounce[d1].pc = "done" /\ debounce[d2].pc = "done"
        /\ debounce[d1].pos # 0 /\ debounce[d2].pos = debounce[d1].pos
        /\ debounce[d1].undisturbed /\ debounce[d1].failures = 0
        /\ debounce[d1].renames >= 1
        /\ debounce[d2].syncedAtStart /\ debounce[d2].undisturbed
        /\ debounce[d2].failures = 0 /\ debounce[d2].renames = 0
        /\ debounce[d2].i = Len(counterConfigs[debounce[d2].pos].configs) + 1

\* ------------------------------------------------------------------ C2
\* No config j of the array at Map position p, lo < j < hi, has its channel.
C2_PassedOver(p, lo, hi) ==
    \A j \in (lo + 1)..(hi - 1) :
        ~ChannelCached(chans', counterConfigs[p].guildId,
                       counterConfigs[p].configs[j].channelId)

\* b is at the fetch of config i of the array at p.
C2_AtFetch(b, p, i) ==
    /\ b.pc = "fetch" /\ b.pos = p /\ b.i = i
    /\ i \in DOMAIN counterConfigs[p].configs
    /\ b.channel = counterConfigs[p].configs[i].channelId
    /\ ChannelCached(chans', counterConfigs[p].guildId, b.channel)

\* updateGuildCounters goes from config a.i on to the next config of the
\* array whose channel exists, or ends past the last config.
C2_GuildAdvance(a, b) ==
    LET n == Len(counterConfigs[a.pos].configs)
    IN  /\ b.pos = a.pos /\ b.i > a.i
        /\ C2_PassedOver(a.pos, a.i, b.i)
        /\ IF b.i > n THEN b.i = n + 1 /\ b.pc = "done"
           ELSE C2_AtFetch(b, a.pos, b.i)

\* updateAllCounters goes from config a.i of the array at a.pos on to the next
\* config whose channel exists, of that array or of the next guild the
\* client resolves, or ends past the last entry of the Map.
C2_SweepAdvance(a, b) ==
    \/ /\ b.pos = a.pos /\ b.i > a.i
       /\ C2_PassedOver(a.pos, a.i, b.i)
       /\ C2_AtFetch(b, a.pos, b.i)
    \/ /\ b.pos > a.pos
       /\ C2_PassedOver(a.pos, a.i, Len(counterConfigs[a.pos].configs) + 1)
       /\ \A p \in (a.pos + 1)..(b.pos - 1) :
              \/ counterConfigs[p].deleted
              \/ counterConfigs[p].guildId \notin guildCache
              \/ C2_PassedOver(p, 0, Len(counterConfigs[p].configs) + 1)
       /\ IF b.pos > Len(counterConfigs)
          THEN b.pos = Len(counterConfigs) + 1 /\ b.pc = "done"
          ELSE /\ ~counterConfigs[b.pos].deleted
               /\ counterConfigs[b.pos].guildId \in guildCache
               /\ C2_PassedOver(b.pos, 0, b.i)
               /\ C2_AtFetch(b, b.pos, b.i)

\* The step a -> b is a step of the pass itself.
C2_Moves(a, b) == b.pc # a.pc \/ b.i # a.i \/ b.pos # a.pos

C2_GuildStep(a, b) ==
    a.pc \in {"fetch", "setName"} /\ C2_Moves(a, b) =>
        \/ C1_RenameIssued(a, b) /\ b.failures = a.failures
        \/ C2_GuildAdvance(a, b)

C2_SweepStep(a, b) ==
    /\ a.pc \in {"fetch", "setName"} /\ C2_Moves(a, b) =>
          \/ C1_RenameIssued(a, b) /\ b.failures = a.failures
          \/ b.pc = "log" /\ b.pos = a.pos /\ b.i = a.i
          \/ a.pc = "fetch" /\ b.failures = a.failures /\ C2_SweepAdvance(a, b)
    /\ b.failures > a.failures => b.pc = "log" /\ a.pc \in {"fetch", "setName"}
    /\ a.pc = "log" /\ C2_Moves(a, b) => C2_SweepAdvance(a, b)

\* C2: whether the fetch or the setName of a config succeeds or fails, the
\* pass goes on from that config to the next config of the guild whose
\* channel exists, and a sweep from the last config of a guild to the next
\* guild of the store; a pass ends only past the last config (and a sweep
\* past the last guild), so a failure never ends it.
C2_FailureIsolation ==
    [][/\ \A d \in DebounceIds : C2_GuildStep(debounce[d], debounce'[d])
       /\ \A w \in SweepIds : C2_SweepStep(sweep[w], sweep'[w])]_vars

\* A sweep whose calls for both configs of the first guild failed is at the
\* rename of the counter of the second guild.
C2_Witness ==
    \E w \in SweepIds :
        /\ sweep[w].pc = "setName" /\ sweep[w].pos = 2
        /\ sweep[w].failures0 = 2


\* ------------------------------------------------------------------ C3
\* The step a -> b is a step of the handler invocation itself.
HandlerMoves(a, b) == b # a

\* The document doc holds the guilds and configs of the store map.
DocOfStore(doc, map) ==
    /\ doc.tag = "object" /\ doc.hasCounterConfigs
    /\ Len(doc.entries) = Len(StoreView(map))
    /\ \A k \in DOMAIN doc.entries :
          /\ doc.entries[k].key = StoreView(map)[k].guildId
          /\ doc.entries[k].value.tag = "object"
          /\ doc.entries[k].value.cfgTag = "array"
          /\ doc.entries[k].value.items = StoreView(map)[k].configs

C3_TeardownStep(a, b) ==
    /\ a.pc \in {"deleteChannel", "deleteCategory", "log"} /\ HandlerMoves(a, b)
          => b.pc \in {"deleteChannel", "deleteCategory", "log", "writeFile"}
    /\ b.pc = "writeFile" /\ a.pc # "writeFile" =>
          /\ a.pc \in {"deferReply", "deleteChannel", "deleteCategory", "log"}
          /\ \A k \in DOMAIN counterConfigs' :
                counterConfigs'[k].guildId = b.guild => counterConfigs'[k].deleted
          /\ \A k \in DOMAIN counterConfigs' :
                counterConfigs'[k].guildId # b.guild
                    => counterConfigs'[k] = counterConfigs[k]
          /\ DocOfStore(b.doc, counterConfigs')
          /\ \A k \in DOMAIN b.doc.entries : b.doc.entries[k].key # b.guild
    /\ a.pc \in {"writeFile", "editReply"} /\ HandlerMoves(a, b) =>
          /\ counterConfigs' = counterConfigs
          /\ file' = file \/ (a.pc = "writeFile" /\ file' = a.doc)
    /\ b.pos # 0 /\ b.pc \in {"editReply", "done"}
          => a.pc \in {"writeFile", "editReply", "done"}

\* C3: a teardown that found configs for its guild goes from its deletions,
\* whichever of them succeed or fail, only to the step that removes the
\* guild's entry from the store (and no other entry) and hands fs.writeFile
\* the document of the store so cleared; it replies only after that write
\* has settled, and changes the store no more.
C3_TeardownClearsThenPersists ==
    [][\A r \in ResetIds : C3_TeardownStep(reset[r], reset'[r])]_vars

\* A teardown has replied, one channel deleted and one deletion failed: the
\* store and config.json hold nothing of its guild.
C3_Witness ==
    \E r \in ResetIds :
        /\ reset[r].pc = "done" /\ reset[r].reply = "success"
        /\ reset[r].deletedChannels >= 1 /\ reset[r].channelFailures >= 1
        /\ ~MapHas(counterConfigs, reset[r].guild)
        /\ file = reset[r].doc
        /\ \A k \in DOMAIN file.entries : file.entries[k].key # reset[r].guild

\* ------------------------------------------------------------------ C4
\* C4: the counts a teardown reports are those of its channels: the failed
\* count is the number of channel deletions that failed, and when every
\* config's channel existed the two counts add up to the number of configs.
C4_CountsAreChannelOutcomes ==
    \A r \in ResetIds :
        reset[r].embed = "success" =>
            LET n == Len(counterConfigs[reset[r].pos].configs)
            IN  /\ reset[r].failedDeletions = reset[r].channelFailures
                /\ reset[r].deletedChannels + reset[r].channelFailures = n
                      => reset[r].deletedChannels + reset[r].failedDeletions = n

\* ------------------------------------------------------------------ C5
\* The store holds no entry for g, or one with an empty configs array.
C5_NoConfigs(g) ==
    \A k \in DOMAIN counterConfigs :
        ~counterConfigs[k].deleted /\ counterConfigs[k].guildId = g
            => counterConfigs[k].configs = <<>>

C5_TeardownStep(a, b) ==
    /\ a.pc = "deferReply" /\ HandlerMoves(a, b) /\ C5_NoConfigs(a.guild) =>
          /\ b.pc = "editReply" /\ b.embed \in {"noCounters", "error"}
          /\ counterConfigs' = counterConfigs
    /\ b.embed = "noCounters" /\ a.embed # "noCounters"
          => a.pc = "deferReply" /\ C5_NoConfigs(a.guild)
    /\ b.embed = "noCounters" \/ b.reply = "noCounters" =>
          /\ b.deleteCalls = 0 /\ b.deletedChannels = 0 /\ b.failedDeletions = 0
          /\ b.pc \in {"editReply", "done"} /\ b.doc = NoFile
    /\ (a.embed = "noCounters" \/ b.embed = "noCounters") /\ HandlerMoves(a, b) =>
          /\ counterConfigs' = counterConfigs
          /\ chans' = chans
          /\ file' = file

\* C5: a teardown for a guild whose entry is absent or empty issues the
\* no-counters reply and nothing else: no channel or category delete call,
\* both counts zero, no write, and the store, the channels and config.json
\* as they were; and the no-counters reply is issued in that case only.
C5_NothingToReset ==
    [][\A r \in ResetIds : C5_TeardownStep(reset[r], reset'[r])]_vars

\* Two teardowns have replied no-counters: one for g1, whose entry is an
\* empty array, one for g2, which had no entry when it was asked.
C5_Witness ==
    \E r1, r2 \in ResetIds :
        /\ reset[r1].pc = "done" /\ reset[r1].reply = "noCounters"
        /\ reset[r1].guild = "g1" /\ MapHas(counterConfigs, "g1")
        /\ counterConfigs[MapPos(counterConfigs, "g1")].configs = <<>>
        /\ reset[r2].pc = "done" /\ reset[r2].reply = "noCounters"
        /\ reset[r2].guild = "g2"


\* ------------------------------------------------------------------ C6
C6_SetupStep(a, b) ==
    /\ a.pc \in {"createCategory", "fetch", "createChannel"} /\ b.embed = "error" =>
          /\ b.pc = "editReply"
          /\ b.doc = NoFile /\ b.channel = 0
          /\ counterConfigs' = counterConfigs
          /\ file' = file
          /\ chans' = chans
    /\ a.embed = "error" /\ HandlerMoves(a, b) =>
          /\ b.embed = "error" /\ b.pc \in {"editReply", "done"}
          /\ b.doc = a.doc /\ b.channel = a.channel /\ b.category = a.category
          /\ b.pc = "done" => b.reply \in {"error", "none"}
          /\ counterConfigs' = counterConfigs
          /\ file' = file
          /\ chans' = chans
    /\ HandlerMoves(a, b) /\ ~(a.pc = "createChannel" /\ b.pc = "writeFile")
          => counterConfigs' = counterConfigs

\* C6: when the category's creation, the membership fetch or the channel's
\* creation of a set-up rejects, the set-up issues the error reply with the
\* store, config.json and the channels as they are and no write started;
\* from then on it only settles that reply: it issues no call again and
\* changes nothing.  No step of a set-up but the append changes the store.
C6_SetupAbortsOnFailure ==
    [][\A s \in SetupIds : C6_SetupStep(setup[s], setup'[s])]_vars

\* A set-up whose channel creation was rejected has replied with the error
\* embed; the store holds no entry for its guild.
C6_Witness ==
    \E s \in SetupIds :
        /\ setup[s].pc = "done" /\ setup[s].reply = "error"
        /\ setup[s].category # 0 /\ setup[s].channelName # ""
        /\ setup[s].channel = 0 /\ setup[s].doc = NoFile
        /\ ~MapHas(counterConfigs, setup[s].guild)

\* ------------------------------------------------------------------ C7
\* The configs the store holds for g (none when it has no entry).
C7_ConfigsOf(map, g) ==
    IF \E k \in DOMAIN map : ~map[k].deleted /\ map[k].guildId = g
    THEN map[CHOOSE k \in DOMAIN map : ~map[k].deleted /\ map[k].guildId = g].configs
    ELSE <<>>

C7_IsCategory(id, g, name) ==
    /\ id \in DOMAIN chans /\ chans[id].cached /\ chans[id].guild = g
    /\ chans[id].type = "category" /\ chans[id].name = name

C7_Order ==
    {<<"idle", "reply">>, <<"reply", "done">>, <<"idle", "deferReply">>,
     <<"deferReply", "fetch">>, <<"deferReply", "createCategory">>,
     <<"createCategory", "fetch">>, <<"fetch", "createChannel">>,
     <<"createChannel", "writeFile">>, <<"writeFile", "editReply">>,
     <<"editReply", "done">>,
     <<"deferReply", "editReply">>, <<"createCategory", "editReply">>,
     <<"fetch", "editReply">>, <<"createChannel", "editReply">>}

C7_SetupStep(a, b) ==
    /\ b.pc # a.pc => <<a.pc, b.pc>> \in C7_Order
    /\ a.pc = "deferReply" /\ b.pc = "fetch"
          => C7_IsCategory(b.category, a.guild, a.categoryName) /\ chans' = chans
    /\ a.pc = "deferReply" /\ b.pc = "createCategory"
          => ~\E id \in DOMAIN chans : C7_IsCategory(id, a.guild, a.categoryName)
    /\ a.pc = "createCategory" /\ b.pc = "fetch" =>
          /\ chans' = Append(chans, [guild |-> a.guild, type |-> "category",
                                     name |-> a.categoryName, parent |-> 0,
                                     cached |-> TRUE])
          /\ b.category = Len(chans')
    /\ a.pc = "fetch" /\ b.pc = "createChannel" =>
          /\ b.count = getCountForType(members[a.guild], a.type)
          /\ b.category = a.category
          /\ chans' = chans
    /\ a.pc = "createChannel" /\ b.pc = "writeFile" =>
          LET config == [channelId |-> Len(chans'), type |-> a.type,
                         categoryId |-> a.category]
          IN  /\ chans' = Append(chans,
                     [guild |-> a.guild, type |-> "voice",
                      name |-> COUNTER_TYPES[a.type] \o ": " \o ToString(a.count),
                      parent |-> a.category, cached |-> TRUE])
              /\ C7_IsCategory(a.category, a.guild, a.categoryName)
              /\ C7_ConfigsOf(counterConfigs', a.guild)
                    = Append(C7_ConfigsOf(counterConfigs, a.guild), config)
              /\ \A g \in GuildIds \ {a.guild} :
                    C7_ConfigsOf(counterConfigs', g) = C7_ConfigsOf(counterConfigs, g)
              /\ \A k \in DOMAIN counterConfigs :
                    counterConfigs'[k].guildId = counterConfigs[k].guildId
                    /\ counterConfigs'[k].deleted = counterConfigs[k].deleted
              /\ DocOfStore(b.doc, counterConfigs')
    /\ a.pc = "writeFile" /\ b.pc = "editReply" =>
          /\ b.embed = "success"
          /\ file' = a.doc \/ file' = file

\* C7: a set-up takes its steps in the order of the code: the category with
\* the name asked for is found in the guild, or created when the guild has
\* none; the membership is fetched and counted; the voice channel named
\* "<label>: <count>" is created under that category; with it one config
\* {the new channel's id, the type, the category's id} is put at the end of
\* the guild's configs (a first config making the entry), the configs before
\* it and those of the other guilds kept; and fs.writeFile is handed the
\* document of that store.
C7_SetupOrderAndAppend ==
    [][\A s \in SetupIds : C7_SetupStep(setup[s], setup'[s])]_vars

\* Two set-ups of one guild have replied with the success embed: the guild's
\* configs are those of their two channels, in the order of their appends,
\* under one category.
C7_Witness ==
    \E s1, s2 \in SetupIds :
        /\ s1 # s2
        /\ setup[s1].pc = "done" /\ setup[s1].reply = "success"
        /\ setup[s2].pc = "done" /\ setup[s2].reply = "success"
        /\ setup[s1].guild = setup[s2].guild
        /\ setup[s1].category = setup[s2].category
        /\ C7_ConfigsOf(counterConfigs, setup[s1].guild) =
              <<[channelId |-> setup[s1].channel, type |-> setup[s1].type,
                 categoryId |-> setup[s1].category],
                [channelId |-> setup[s2].channel, type |-> setup[s2].type,
                 categoryId |-> setup[s2].category]>>
        /\ DocOfStore(file, counterConfigs)


\* ------------------------------------------------------------------ C11
C11_HandlerStep(a, b) ==
    /\ b.pc = "exited" /\ a.pc # "exited" =>
          /\ a.pc = "exit" /\ a.saved \in {"written", "failed"}
          /\ a.kind \in {"SIGINT", "SIGTERM", "uncaughtException"}
          /\ proc.exitCode = -1
          /\ proc'.exitCode = IF a.kind = "uncaughtException" THEN 1 ELSE 0
    /\ a.pc = "writeFile" /\ HandlerMoves(a, b) =>
          /\ b.pc = "exit"
          /\ \/ b.saved = "written" /\ file' = a.doc
             \/ b.saved = "failed" /\ file' = file
    /\ b.saved # "none" => b.pc \in {"exit", "exited"}
    /\ b.kind = "unhandledRejection" =>
          /\ b.pc \in {"log", "done"} /\ b.doc = NoFile
          /\ HandlerMoves(a, b) => file' = file /\ proc'.exitCode = proc.exitCode

\* C11: the process exits only by a handler of SIGINT, SIGTERM or
\* uncaughtException whose saveConfigs has returned, its write settled
\* either way, with code 0 for the signals and 1 for the exception; a
\* write that fails leads to the exit as one that succeeds does; the
\* handler of unhandledRejection starts no write and no exit.
C11_ExitAfterSave ==
    [][/\ proc'.exitCode # proc.exitCode =>
             \E h \in SignalIds :
                 proc.handlers[h].pc = "exit" /\ proc'.handlers[h].pc = "exited"
       /\ \A h \in SignalIds : C11_HandlerStep(proc.handlers[h], proc'.handlers[h])]_vars

\* The process has exited with code 0 after a write that failed, an
\* unhandled rejection having been logged before.
C11_Witness ==
    \E h1, h2 \in SignalIds :
        /\ proc.exitCode = 0
        /\ proc.handlers[h1].pc = "exited" /\ proc.handlers[h1].saved = "failed"
        /\ proc.handlers[h2].kind = "unhandledRejection"
        /\ proc.handlers[h2].pc = "done"

\* C12: every invocation of /counter-setup, /counter-list or /counter-reset
\* that has ended, and none of whose response calls the platform rejected,
\* gave the requester exactly one response.
C12_Ended(rec) == rec.pc = "done" /\ ~rec.rejected

C12_OneFinalResponse ==
    /\ \A s \in SetupIds : C12_Ended(setup[s]) => setup[s].responses = 1
    /\ \A r \in ResetIds : C12_Ended(reset[r]) => reset[r].responses = 1
    /\ \A l \in ListIds : C12_Ended(list[l]) => list[l].responses = 1

\* C13: each member or presence event sets one timer of its own for its
\* guild and touches no other timer; a pending timer is left only by
\* firing, for its guild and not before the delay has passed, and a timer
\* that has fired is never pending again: k events make k invocations of
\* updateGuildCounters.
C13_TimerStep(a, b) ==
    /\ a.pc = "timer" =>
          \/ b.pc = "timer" /\ b.guild = a.guild /\ b.age \in {a.age, a.age + 1}
          \/ /\ a.age >= DebounceDelay
             /\ b.pc \in {"fetch", "done"} /\ b.guild = a.guild
    /\ a.pc # "idle" => b.pc # "idle"
    /\ a.pc \notin {"idle", "timer"} => b.pc # "timer"

C13_EventStep ==
    LET set == {d \in DebounceIds : debounce[d].pc = "idle" /\ debounce'[d].pc # "idle"}
    IN  /\ members' # members =>
              /\ Cardinality(set) = 1
              /\ \A d \in DebounceIds \ set : debounce'[d].pc = debounce[d].pc
        /\ \A d \in set :
              /\ debounce'[d].pc = "timer" /\ debounce'[d].age = 0
              /\ members'[debounce'[d].guild] # members[debounce'[d].guild]

C13_OneReconcilePerEvent ==
    [][/\ C13_EventStep
       /\ \A d \in DebounceIds : C13_TimerStep(debounce[d], debounce'[d])]_vars

\* Two events in one guild: the timer of one of them has fired and its
\* reconcile awaits the fetch, the timer of the other is still pending with
\* its delay passed.
C13_Witness ==
    \E d1, d2 \in DebounceIds :
        /\ debounce[d1].pc = "fetch"
        /\ debounce[d2].pc = "timer" /\ debounce[d2].age = DebounceDelay
        /\ debounce[d2].guild = debounce[d1].guild

\* C14: a timer that fires when the guild has no entry in the store (a reset
\* has deleted it) starts a reconcile that ends at once: no members.fetch and
\* no setName is issued, no failure is reported, the store, the channels and
\* config.json are as they were, and the reconcile does nothing afterwards.
C14_Fires(a, b) == a.pc = "timer" /\ b.pc # "timer"

C14_SkipStep(a, b) ==
    /\ C14_Fires(a, b) /\ ~MapHas(counterConfigs, a.guild) =>
          /\ b.pc = "done" /\ b.renames = 0 /\ b.failures = 0
          /\ b.pos = 0 /\ b.channel = 0
          /\ counterConfigs' = counterConfigs
          /\ chans' = chans
          /\ file' = file
    /\ a.pc = "done" => b = a

C14_SkipAfterTeardown ==
    [][\A d \in DebounceIds : C14_SkipStep(debounce[d], debounce'[d])]_vars

\* A reset of the guild has deleted its entry, while the one timer of that
\* guild was pending, and has replied, and the reconcile of that timer has
\* ended without having found an entry.
C14_Witness ==
    \E d \in DebounceIds, r \in ResetIds :
        /\ reset[r].pc = "done" /\ reset[r].reply = "success"
        /\ reset[r].deletedChannels > 0
        /\ debounce[d].guild = reset[r].guild
        /\ reset[r].timerPending
        /\ \A o \in DebounceIds \ {d} : debounce[o].pc = "idle"
        /\ debounce[d].pc = "done" /\ debounce[d].pos = 0
        /\ ~MapHas(counterConfigs, debounce[d].guild)

\* C15: no step of a reconcile pass, of updateAllCounters or of
\* updateGuildCounters, changes the store, whether it passes over a channel
\* that is gone or one of its calls fails; the store changes only in steps
\* of loadConfigs, of the set-up and of the reset.
C15_PassMoved(a, b) ==
    <<a.pc, a.pos, a.i, a.channel, a.newName, a.renames, a.failures>>
        # <<b.pc, b.pos, b.i, b.channel, b.newName, b.renames, b.failures>>

C15_PassStep ==
    \/ \E w \in SweepIds : C15_PassMoved(sweep[w], sweep'[w])
    \/ \E d \in DebounceIds : C15_PassMoved(debounce[d], debounce'[d])

C15_PassesLeaveStore ==
    [][/\ C15_PassStep => counterConfigs' = counterConfigs
       /\ counterConfigs' # counterConfigs =>
             \/ loader' # loader
             \/ setup' # setup
             \/ reset' # reset]_vars

\* A full sweep and the reconcile of a timer have ended, each with a failed
\* call in g1, whose second counter channel is gone: the store holds the
\* two configs of g1 as loaded.
C15_Witness ==
    /\ sweep[1].pc = "done" /\ sweep[1].failures > 0
    /\ debounce[1].pc = "done" /\ debounce[1].guild = "g1"
    /\ debounce[1].failures > 0
    /\ ~chans[3].cached
    /\ MapHas(counterConfigs, "g1")
    /\ counterConfigs[MapPos(counterConfigs, "g1")].configs = RestartConfigs("g1")

C17_OneCategoryPerName ==
    /\ \A c1, c2 \in DOMAIN chans :
          /\ chans[c1].cached /\ chans[c2].cached
          /\ chans[c1].type = "category" /\ chans[c2].type = "category"
          /\ chans[c1].guild = chans[c2].guild
          /\ chans[c1].name = chans[c2].name
          => c1 = c2
    /\ \A p \in DOMAIN counterConfigs :
          \A i, j \in DOMAIN counterConfigs[p].configs :
              LET ci == counterConfigs[p].configs[i].categoryId
                  cj == counterConfigs[p].configs[j].categoryId
              IN  IsLive(counterConfigs[p])
                  /\ ci \in DOMAIN chans /\ cj \in DOMAIN chans
                  /\ chans[ci].name = chans[cj].name
                  /\ chans[ci].cached /\ chans[cj].cached
                  => ci = cj

\* C18: when no pass is at work and no timer pending, no call of any pass
\* has failed, and the reconcile of the last event of a guild has run over
\* the guild's configs to its end, every counter channel of the guild that
\* exists bears the name of its type and the count of the membership.
C18_Quiet ==
    /\ \A w \in SweepIds : sweep[w].pc \in {"idle", "done"} /\ sweep[w].failures = 0
    /\ \A d \in DebounceIds :
          debounce[d].pc \in {"idle", "done"} /\ debounce[d].failures = 0

C18_LastReconcileDone(g) ==
    \E d \in DebounceIds :
        /\ debounce[d].pc = "done" /\ debounce[d].guild = g /\ debounce[d].pos > 0
        /\ \A o \in DebounceIds : o > d => debounce[o].guild # g

C18_InterleavedPassesConverge ==
    \A g \in GuildIds :
        C18_Quiet /\ C18_LastReconcileDone(g) /\ MapHas(counterConfigs, g)
            => SyncedArray(counterConfigs, chans, members, MapPos(counterConfigs, g))

\* C19: between the steps of the handlers every entry of the store is a
\* non-empty array of complete configs, each of a voice channel that was
\* created in the entry's guild; the store changes only in a step in which
\* a set-up or a reset also calls saveConfigs, and such a handler replies
\* and ends only after the fs.writeFile of that call has settled.
C19_Complete(config, g) ==
    /\ DOMAIN config = {"channelId", "type", "categoryId"}
    /\ config.type \in CounterKinds
    /\ config.channelId \in DOMAIN chans
    /\ chans[config.channelId].type = "voice"
    /\ chans[config.channelId].guild = g
    /\ config.categoryId \in DOMAIN chans
    /\ chans[config.categoryId].type = "category"

C19_Consistent ==
    \A p \in DOMAIN counterConfigs :
        IsLive(counterConfigs[p]) =>
            /\ counterConfigs[p].configs # <<>>
            /\ \A i \in DOMAIN counterConfigs[p].configs :
                  C19_Complete(counterConfigs[p].configs[i], counterConfigs[p].guildId)

C19_HandlerStep(a, b) ==
    /\ b.pc = "writeFile" /\ a.pc # "writeFile" =>
          /\ counterConfigs' # counterConfigs
          /\ b.doc = Serialize(counterConfigs', guildCache)
    /\ a.pc = "writeFile" /\ HandlerMoves(a, b) =>
          /\ b.pc = "editReply" /\ b.embed = "success"
          /\ file' \in {a.doc, file}
    /\ b.pc = "editReply" /\ b.embed = "success" /\ a.pc # "editReply" =>
          a.pc = "writeFile"
    /\ b.pc = "done" /\ a.pc # "done" => a.pc \in {"reply", "editReply"}

C19_StoreConsistentAtAwaits ==
    [][/\ C19_Consistent /\ C19_Consistent'
       /\ \A s \in SetupIds : C19_HandlerStep(setup[s], setup'[s])
       /\ \A r \in ResetIds : C19_HandlerStep(reset[r], reset'[r])
       /\ counterConfigs' # counterConfigs =>
             \/ \E s \in SetupIds :
                   setup[s].pc = "createChannel" /\ setup'[s].pc = "writeFile"
             \/ \E r \in ResetIds :
                   reset[r].pc # "writeFile" /\ reset'[r].pc = "writeFile"]_vars

\* One set-up awaits the fs.writeFile of its saveConfigs, its config the
\* last of the guild's array, while another in the same guild awaits the
\* creation of its channel.
C19_Witness ==
    \E s1, s2 \in SetupIds :
        /\ setup[s1].pc = "writeFile" /\ setup[s2].pc = "createChannel"
        /\ setup[s2].guild = setup[s1].guild
        /\ MapHas(counterConfigs, setup[s1].guild)
        /\ LET configs == counterConfigs[MapPos(counterConfigs, setup[s1].guild)].configs
           IN  configs[Len(configs)].channelId = setup[s1].channel

\* C20: in the loop of the reset, the deletion of a config's category is
\* issued only when the category is there and has no child; when the
\* deletion of a config's channel settles, resolved or rejected, the
\* deletion of its category is issued if and only if the category is there
\* and has no child then; and a category is not deleted while it has a
\* child.
C20_Eligible(ch, g, cat) ==
    ChannelCached(ch, g, cat) /\ ChildCount(ch, cat) = 0

C20_TeardownStep(a, b) ==
    /\ b.pc = "deleteCategory" /\ a.pc # "deleteCategory" =>
          C20_Eligible(chans', b.guild, b.category)
    /\ a.pc = "deleteChannel" /\ HandlerMoves(a, b) =>
          (b.pc = "deleteCategory" /\ b.i = a.i
              <=> C20_Eligible(chans', a.guild,
                               counterConfigs[a.pos].configs[a.i].categoryId))
    /\ a.pc = "deleteCategory" /\ chans'[a.category].cached # chans[a.category].cached
          => ChildCount(chans, a.category) = 0

C20_CategoryDeletedWhenEmpty ==
    [][\A r \in ResetIds : C20_TeardownStep(reset[r], reset'[r])]_vars

\* C21: when no fs.writeFile of any saveConfigs is in flight, and a
\* saveConfigs whose document was built from the store as it is now has
\* written its document, config.json holds the guild ids and the configs of
\* the store.
C21_NoWriteInFlight ==
    /\ saver.pc # "writeFile"
    /\ \A s \in SetupIds : setup[s].pc # "writeFile"
    /\ \A r \in ResetIds : reset[r].pc # "writeFile"
    /\ \A h \in SignalIds : proc.handlers[h].pc # "writeFile"

C21_WroteTheStore ==
    \E h \in SignalIds :
        /\ proc.handlers[h].saved = "written"
        /\ DocOfStore(proc.handlers[h].doc, counterConfigs)

C21_SnapshotIsStore ==
    C21_NoWriteInFlight /\ C21_WroteTheStore => DocOfStore(file, counterConfigs)

\* C22: config.json holds at every moment every config it held when the
\* process started, but those of a guild whose entry a reset has deleted: no
\* write replaces it by the document of a store the load has not filled
\* yet.
C22_Holds(f, key, item) ==
    \E j \in DOMAIN f.entries :
        /\ f.entries[j].key = key
        /\ f.entries[j].value.tag \in {"array", "object"}
        /\ \E m \in DOMAIN f.entries[j].value.items :
              f.entries[j].value.items[m] = item

C22_TornDown(g) ==
    \E r \in ResetIds :
        /\ reset[r].guild = g /\ reset[r].pos > 0
        /\ reset[r].pc \in {"writeFile", "editReply", "done"}

C22_SnapshotKeepsCounters ==
    \A k \in DOMAIN RestartFile.entries :
        \/ C22_TornDown(RestartFile.entries[k].key)
        \/ \A i \in DOMAIN RestartFile.entries[k].value.items :
              C22_Holds(file, RestartFile.entries[k].key,
                        RestartFile.entries[k].value.items[i])

=============================================================================
